---- MODULE Spec2Model ----
(***************************************************************************)
(* Model of the SonicWeb service Group (package service): atomic startup   *)
(* of N HTTP servers, one goroutine per listener, graceful shutdown under  *)
(* a shared context and the join on WaitAllServersShutdown; of the Group's *)
(* construction from options (NewGroup); of the TLS configuration          *)
(* resolution (generateTLSConfig); and of the try-files middleware         *)
(* (addTryFiles).                                                          *)
(***************************************************************************)
EXTENDS FiniteSets, Integers, Naturals, Sequences, TLC

\* Largest number of servers a Group is configured with.
MaxServers == 2

Idx == 1..MaxServers

VARIABLES
    servers,        \* g.servers: sequence of server identities
    serverNames,    \* g.serverNames: sequence of names, one per server
    ctxCancelled,   \* the shared context passed to StartAll: ctx.Err() != nil
    cpc,            \* position of the client goroutine (caller of StartAll / Wait)
    loopIdx,        \* index of the loop StartAll / bindListeners is in
    saErr,          \* value returned by the last StartAll call (ErrNotCalled before it)
    waitGroup,      \* g.waitGroup counter
    procCount,      \* g.procCount
    listeners,      \* listeners[i]: socket bound for server i in the current StartAll call
    hpc,            \* hpc[i]: position of the handleServerCycle goroutine of server i
    startedNow,     \* startedNow[i]: the current StartAll call started a goroutine for server i
    spc,            \* spc[i]: position of the startServer goroutine of server i
    serveErrCh,     \* serveErrCh[i]: content of the buffered channel (capacity 1)
    inShutdown,     \* inShutdown[i]: Shutdown or Close was called on http.Server i
    shutdownRes,    \* shutdownRes[i]: what server.Shutdown returned to the goroutine
    shutdownCalls,  \* shutdownCalls[i]: Shutdown calls issued by the goroutine of server i
    closeCalls,     \* closeCalls[i]: server.Close calls issued by the goroutine of server i
    timedOut,       \* timedOut[i]: the goroutine left the inner select by time.After
    shutdownCtx,    \* shutdownCtx[i]: state of the context given to server.Shutdown, at the call
    shutdownTimeout,\* g.shutdownTimeout, in seconds
    log,            \* g.log: "discard" or the logger given with WithLogger
    ngOptions,      \* the options NewGroup is called with
    ngState,        \* "input" before NewGroup ran, then "group" (a Group was returned) or "failed"
    ngErr,          \* the error NewGroup returned: the joined option errors, <<>> for nil
    tlsIn,          \* arguments of generateTLSConfig and the files they name
    tlsOut,         \* what generateTLSConfig returned and which files it touched
    tfIn,           \* try-file rules given to addTryFiles, content root and request path
    tfOut,          \* what the try-files handler did with the request
    hdIn,           \* -header arguments, -headerfile arguments and the content of a header file
    hdOut,          \* the header lines read and the header list given to addHeaders
    mainSt          \* main: position, deferred calls, cleanups run, calls of exitFunc

vars == <<servers, serverNames, ctxCancelled, cpc, loopIdx, saErr, waitGroup,
          procCount, listeners, hpc, startedNow, spc, serveErrCh, inShutdown,
          shutdownRes, shutdownCalls, closeCalls, timedOut, shutdownTimeout,
          log, ngOptions, ngState, ngErr, tlsIn, tlsOut, tfIn, tfOut, shutdownCtx,
          hdIn, hdOut, mainSt>>

cfgVars == <<servers, serverNames>>
\* What no operation of a constructed Group writes: the rest of its
\* configuration and the state of the other components.
setupVars == <<shutdownTimeout, log, ngOptions, ngState, ngErr, tlsIn, tlsOut, tfIn, tfOut,
               hdIn, hdOut, mainSt>>
clientVars == <<cpc, loopIdx, saErr>>
cycleVars == <<hpc, startedNow, shutdownRes, shutdownCalls, closeCalls, timedOut, shutdownCtx>>
serveVars == <<spc, serveErrCh>>

NumServers == Len(servers)

\* Values of StartAll: ErrNone is the nil error, ErrNotCalled stands for no call yet.
ErrNotCalled == <<"not called">>
ErrNone == <<"nil">>
ErrContext == <<"context error">>
ErrNoServers == <<"no servers configured">>
ErrServerNameLenMismatch == <<"server and name length mismatch">>
ErrListen(name) == <<"could not listen for server", name>>

----------------------------------------------------------------------------
(* Construction: the options and NewGroup.                                 *)

\* Largest number of options given to NewGroup.
MaxOptions == 2
\* Largest length of a slice given to WithServers.
MaxSlice == 2

\* The default shutdown timeout, in seconds.
serverShutdownTimeout == 5

\* The nil *http.Server (servers are numbered from 1), the nil *slog.Logger
\* and the nil *Group; a returned Group pointer is <<g>>.
NilServer == 0
NilLogger == "nil"
NilGroup == <<>>

ErrNilServer == <<"server is nil">>

\* fmt.Errorf("%w: ...", sentinel, detail...): an error that wraps sentinel.
Wrap(sentinel, detail) == sentinel \o detail

\* errors.Is on one error of a joined list.
IsErr(e, sentinel) == Len(e) >= Len(sentinel) /\ SubSeq(e, 1, Len(sentinel)) = sentinel

\* errors.Is(err, sentinel) where err is errors.Join of the list errs (wrapped
\* once more by NewGroup, which keeps the chain).
Wraps(errs, sentinel) == \E i \in 1..Len(errs) : IsErr(errs[i], sentinel)

\* An option is a closure over its arguments; opt.servers and opt.names hold
\* the server and name arguments (one each for WithServer), opt.logger and
\* opt.timeout the argument of WithLogger and of WithShutdownTimeout.
WithServerOpt(server, serverName) ==
    [kind |-> "WithServer", servers |-> <<server>>, names |-> <<serverName>>,
     logger |-> NilLogger, timeout |-> 0]
WithServersOpt(ss, ns) ==
    [kind |-> "WithServers", servers |-> ss, names |-> ns,
     logger |-> NilLogger, timeout |-> 0]
WithLoggerOpt(l) ==
    [kind |-> "WithLogger", servers |-> <<>>, names |-> <<>>,
     logger |-> l, timeout |-> 0]
WithShutdownTimeoutOpt(t) ==
    [kind |-> "WithShutdownTimeout", servers |-> <<>>, names |-> <<>>,
     logger |-> NilLogger, timeout |-> t]

\* The closures applied to a group g: the group afterwards and the error
\* returned, as the list of the errors joined in it (<<>> is nil).
WithShutdownTimeout(g, timeout) ==
    [group |-> [g EXCEPT !.shutdownTimeout = timeout], errs |-> <<>>]

WithServer(g, server, serverName) ==
    IF server = NilServer
    THEN [group |-> g, errs |-> <<Wrap(ErrNilServer, <<serverName>>)>>]
    ELSE [group |-> [g EXCEPT !.servers = Append(@, server),
                              !.serverNames = Append(@, serverName)],
          errs |-> <<>>]

\* The errors WithServers collects over the slice, in index order.
NilServerErrors(ss, ns) ==
    LET F[i \in 0..Len(ss)] ==
            IF i = 0 THEN <<>>
            ELSE IF ss[i] = NilServer THEN Append(F[i - 1], Wrap(ErrNilServer, <<ns[i]>>))
            ELSE F[i - 1]
    IN F[Len(ss)]

\* Variant of WithServers that rejects only a servers slice longer than the names slice.
WithServers_OnlyLonger(g, ss, ns) ==
    IF Len(ss) > Len(ns)
    THEN [group |-> g,
          errs |-> <<Wrap(ErrServerNameLenMismatch, <<Len(ss), Len(ns)>>)>>]
    ELSE IF Len(NilServerErrors(ss, ns)) > 0
    THEN [group |-> g, errs |-> NilServerErrors(ss, ns)]
    ELSE [group |-> [g EXCEPT !.servers = @ \o ss, !.serverNames = @ \o ns],
          errs |-> <<>>]

\* Variant of WithServers that does not look for nil servers.
WithServers_NoNilCheck(g, ss, ns) ==
    IF Len(ss) # Len(ns)
    THEN [group |-> g,
          errs |-> <<Wrap(ErrServerNameLenMismatch, <<Len(ss), Len(ns)>>)>>]
    ELSE [group |-> [g EXCEPT !.servers = @ \o ss, !.serverNames = @ \o ns],
          errs |-> <<>>]

WithServers(g, ss, ns) ==
    IF Len(ss) # Len(ns)
    THEN [group |-> g,
          errs |-> <<Wrap(ErrServerNameLenMismatch, <<Len(ss), Len(ns)>>)>>]
    ELSE IF Len(NilServerErrors(ss, ns)) > 0
    THEN [group |-> g, errs |-> NilServerErrors(ss, ns)]
    ELSE [group |-> [g EXCEPT !.servers = @ \o ss, !.serverNames = @ \o ns],
          errs |-> <<>>]

WithLogger(g, l) ==
    [group |-> [g EXCEPT !.log = l], errs |-> <<>>]

\* option(group) for one option of the list.
ApplyOption(g, opt) ==
    CASE opt.kind = "WithServer" -> WithServer(g, opt.servers[1], opt.names[1])
      [] opt.kind = "WithServers" -> WithServers(g, opt.servers, opt.names)
      [] opt.kind = "WithLogger" -> WithLogger(g, opt.logger)
      [] opt.kind = "WithShutdownTimeout" -> WithShutdownTimeout(g, opt.timeout)

\* NewGroup: every option is applied in order to the same group, a failed
\* option does not stop the loop; any error makes the result (nil, error).
NewGroup(options) ==
    LET F[i \in 0..Len(options)] ==
            IF i = 0
            THEN [group |-> [servers |-> <<>>, serverNames |-> <<>>,
                             shutdownTimeout |-> serverShutdownTimeout, log |-> NilLogger],
                  errs |-> <<>>]
            ELSE LET r == ApplyOption(F[i - 1].group, options[i])
                 IN [group |-> r.group, errs |-> F[i - 1].errs \o r.errs]
        res == F[Len(options)]
    IN IF Len(res.errs) > 0
       THEN [group |-> NilGroup, err |-> res.errs]
       ELSE [group |-> IF res.group.log = NilLogger
                       THEN <<[res.group EXCEPT !.log = "discard"]>>
                       ELSE <<res.group>>,
             err |-> <<>>]

\* Nothing is running: the Group's run-time state as construction leaves it.
NothingStarted ==
    /\ ctxCancelled = FALSE
    /\ cpc = "init"
    /\ loopIdx = 0
    /\ saErr = ErrNotCalled
    /\ waitGroup = 0
    /\ procCount = 0
    /\ listeners = [i \in Idx |-> "none"]
    /\ hpc = [i \in Idx |-> "idle"]
    /\ startedNow = [i \in Idx |-> FALSE]
    /\ spc = [i \in Idx |-> "none"]
    /\ serveErrCh = [i \in Idx |-> "empty"]
    /\ inShutdown = [i \in Idx |-> FALSE]
    /\ shutdownRes = [i \in Idx |-> "none"]
    /\ shutdownCalls = [i \in Idx |-> 0]
    /\ closeCalls = [i \in Idx |-> 0]
    /\ timedOut = [i \in Idx |-> FALSE]
    /\ shutdownCtx = [i \in Idx |-> "none"]

\* generateTLSConfig, the try-files handler, the header functions and main
\* have not been used.
NotCalled == <<"not called">>
TLSUnused == tlsIn = NotCalled /\ tlsOut = NotCalled
TryFilesUnused == tfIn = NotCalled /\ tfOut = NotCalled
HeadersUnused == hdIn = NotCalled /\ hdOut = NotCalled
MainUnused == mainSt = NotCalled

\* The Group as NewGroup leaves it: n servers registered with WithServer, each
\* with its name, nothing started.
Init ==
    /\ \E n \in 0..MaxServers :
          /\ ngOptions = [i \in 1..n |-> WithServerOpt(i, <<"name", i>>)]
          /\ servers = NewGroup(ngOptions).group[1].servers
          /\ serverNames = NewGroup(ngOptions).group[1].serverNames
          /\ shutdownTimeout = NewGroup(ngOptions).group[1].shutdownTimeout
          /\ log = NewGroup(ngOptions).group[1].log
          /\ ngErr = NewGroup(ngOptions).err
    /\ ngState = "group"
    /\ NothingStarted
    /\ TLSUnused
    /\ TryFilesUnused
    /\ HeadersUnused
    /\ MainUnused

\* ServerCount: g.procCount.Load().
ServerCount == procCount

\* The client is between two calls on the Group.
ClientIdle == cpc \in {"init", "sa_ret", "wret"}

\* The client may reuse the WaitGroup for a new StartAll only when no Add of an
\* earlier call is outstanding: at the start, after a failed StartAll, or after
\* WaitAllServersShutdown returned.
MayStart ==
    \/ cpc \in {"init", "wret"}
    \/ cpc = "sa_ret" /\ saErr # ErrNone

\* Variant of StartAllPrecheck without the ctx.Err() check.
StartAllPrecheck_NoCtxCheck ==
    IF Len(servers) = 0 THEN ErrNoServers
    ELSE IF Len(servers) # Len(serverNames) THEN ErrServerNameLenMismatch
    ELSE ErrNone

\* The checks StartAll makes before binding; ErrNone when they all pass.
StartAllPrecheck ==
    IF ctxCancelled THEN ErrContext
    ELSE IF Len(servers) = 0 THEN ErrNoServers
    ELSE IF Len(servers) # Len(serverNames) THEN ErrServerNameLenMismatch
    ELSE ErrNone

\* The context of the signal handler is cancelled (SIGINT, SIGTERM, deadline).
Cancel ==
    /\ ~ctxCancelled
    /\ ctxCancelled' = TRUE
    /\ UNCHANGED <<cfgVars, setupVars, clientVars, waitGroup, procCount, listeners, cycleVars,
                   serveVars, inShutdown>>

\* StartAll up to the call of bindListeners: the early returns, or the empty
\* listeners slice of bindListeners.
StartAllEnter ==
    /\ ClientIdle
    /\ MayStart
    /\ IF StartAllPrecheck # ErrNone
          THEN /\ cpc' = "sa_ret"
               /\ saErr' = StartAllPrecheck
               /\ UNCHANGED <<loopIdx, listeners, startedNow>>
          ELSE /\ cpc' = "sa_bind"
               /\ saErr' = ErrNone
               /\ loopIdx' = 1
               /\ listeners' = [i \in Idx |-> "none"]
               /\ startedNow' = [i \in Idx |-> FALSE]
    /\ UNCHANGED <<cfgVars, setupVars, shutdownCtx, ctxCancelled, waitGroup, procCount, hpc, shutdownRes,
                   shutdownCalls, closeCalls, timedOut, serveVars, inShutdown>>

\* Variant of CloseBound that skips the first listener bound.
CloseBound_SkipFirst(k) ==
    [i \in Idx |-> IF 1 < i /\ i < k /\ listeners[i] = "bound" THEN "closed"
                                                               ELSE listeners[i]]

\* The listeners bound so far in this call are closed (the error path of bindListeners).
CloseBound(k) ==
    [i \in Idx |-> IF i < k /\ listeners[i] = "bound" THEN "closed" ELSE listeners[i]]

\* Variant of BindListener in which a server is started right after its own bind.
BindListener_StartEach ==
    /\ cpc = "sa_bind"
    /\ \E ok \in BOOLEAN :
          IF ok
             THEN /\ listeners' = [listeners EXCEPT ![loopIdx] = "bound"]
                  /\ saErr' = saErr
                  /\ cpc' = "sa_add"
                  /\ loopIdx' = loopIdx
             ELSE /\ listeners' = [i \in Idx |-> IF i < loopIdx /\ listeners[i] = "bound"
                                                    THEN "closed" ELSE listeners[i]]
                  /\ saErr' = ErrListen(serverNames[loopIdx])
                  /\ cpc' = "sa_ret"
                  /\ loopIdx' = loopIdx
    /\ UNCHANGED <<cfgVars, setupVars, ctxCancelled, waitGroup, procCount, cycleVars,
                   serveVars, inShutdown>>

\* One iteration of the loop of bindListeners: Listen succeeds or fails.
BindListener ==
    /\ cpc = "sa_bind"
    /\ \E ok \in BOOLEAN :
          IF ok
             THEN /\ listeners' = [listeners EXCEPT ![loopIdx] = "bound"]
                  /\ saErr' = saErr
                  /\ IF loopIdx = Len(servers)
                        THEN cpc' = "sa_add" /\ loopIdx' = 1
                        ELSE cpc' = "sa_bind" /\ loopIdx' = loopIdx + 1
             ELSE /\ listeners' = CloseBound(loopIdx)
                  /\ saErr' = ErrListen(serverNames[loopIdx])
                  /\ cpc' = "sa_ret"
                  /\ loopIdx' = loopIdx
    /\ UNCHANGED <<cfgVars, setupVars, ctxCancelled, waitGroup, procCount, cycleVars,
                   serveVars, inShutdown>>

\* Variant of StartAllAddWait with the Add(1) made for the first server only.
StartAllAddWait_Once ==
    /\ cpc = "sa_add"
    /\ waitGroup' = IF loopIdx = 1 THEN waitGroup + 1 ELSE waitGroup
    /\ cpc' = "sa_count"
    /\ UNCHANGED <<cfgVars, setupVars, ctxCancelled, loopIdx, saErr, procCount,
                   listeners, cycleVars, serveVars, inShutdown>>

\* StartAll loop body, first statement: g.waitGroup.Add(1).
StartAllAddWait ==
    /\ cpc = "sa_add"
    /\ waitGroup' = waitGroup + 1
    /\ cpc' = "sa_count"
    /\ UNCHANGED <<cfgVars, setupVars, ctxCancelled, loopIdx, saErr, procCount,
                   listeners, cycleVars, serveVars, inShutdown>>

\* Variant of StartAllAddCount with the Add(1) made for the first server only.
StartAllAddCount_Once ==
    /\ cpc = "sa_count"
    /\ procCount' = IF loopIdx = 1 THEN procCount + 1 ELSE procCount
    /\ cpc' = "sa_go"
    /\ UNCHANGED <<cfgVars, setupVars, ctxCancelled, loopIdx, saErr, waitGroup,
                   listeners, cycleVars, serveVars, inShutdown>>

\* StartAll loop body, second statement: g.procCount.Add(1).
StartAllAddCount ==
    /\ cpc = "sa_count"
    /\ procCount' = procCount + 1
    /\ cpc' = "sa_go"
    /\ UNCHANGED <<cfgVars, setupVars, ctxCancelled, loopIdx, saErr, waitGroup,
                   listeners, cycleVars, serveVars, inShutdown>>

\* StartAll loop body, third statement: go g.handleServerCycle(...); after the
\* last iteration StartAll returns nil.
StartAllGo ==
    /\ cpc = "sa_go"
    /\ hpc' = [hpc EXCEPT ![loopIdx] = "start"]
    /\ startedNow' = [startedNow EXCEPT ![loopIdx] = TRUE]
    /\ shutdownRes' = [shutdownRes EXCEPT ![loopIdx] = "none"]
    /\ shutdownCalls' = [shutdownCalls EXCEPT ![loopIdx] = 0]
    /\ closeCalls' = [closeCalls EXCEPT ![loopIdx] = 0]
    /\ timedOut' = [timedOut EXCEPT ![loopIdx] = FALSE]
    /\ shutdownCtx' = [shutdownCtx EXCEPT ![loopIdx] = "none"]
    /\ IF loopIdx = Len(servers)
          THEN cpc' = "sa_ret" /\ loopIdx' = loopIdx
          ELSE cpc' = "sa_add" /\ loopIdx' = loopIdx + 1
    /\ UNCHANGED <<cfgVars, setupVars, ctxCancelled, saErr, waitGroup, procCount,
                   listeners, serveVars, inShutdown>>

\* WaitAllServersShutdown is called: the client blocks in g.waitGroup.Wait().
WaitCall ==
    /\ ClientIdle
    /\ cpc' = "waiting"
    /\ UNCHANGED <<cfgVars, setupVars, ctxCancelled, loopIdx, saErr, waitGroup,
                   procCount, listeners, cycleVars, serveVars, inShutdown>>

\* Variant of WaitReturn that empties the server lists once Wait has returned.
WaitReturn_Forget ==
    /\ cpc = "waiting"
    /\ waitGroup = 0
    /\ cpc' = "wret"
    /\ servers' = <<>>
    /\ serverNames' = <<>>
    /\ UNCHANGED <<setupVars, ctxCancelled, loopIdx, saErr, waitGroup,
                   procCount, listeners, cycleVars, serveVars, inShutdown>>

\* g.waitGroup.Wait() returns once the counter is zero.
WaitReturn ==
    /\ cpc = "waiting"
    /\ waitGroup = 0
    /\ cpc' = "wret"
    /\ UNCHANGED <<cfgVars, setupVars, ctxCancelled, loopIdx, saErr, waitGroup,
                   procCount, listeners, cycleVars, serveVars, inShutdown>>

\* handleServerCycle up to the outer select: the channel is made and the
\* startServer goroutine is spawned.
CycleStart(i) ==
    /\ hpc[i] = "start"
    /\ serveErrCh' = [serveErrCh EXCEPT ![i] = "empty"]
    /\ spc' = [spc EXCEPT ![i] = "spawned"]
    /\ hpc' = [hpc EXCEPT ![i] = "select"]
    /\ UNCHANGED <<cfgVars, setupVars, shutdownCtx, ctxCancelled, clientVars, waitGroup, procCount, listeners,
                   startedNow, shutdownRes, shutdownCalls, closeCalls, timedOut, inShutdown>>

\* Outer select, case <-ctx.Done().
CycleCancelled(i) ==
    /\ hpc[i] = "select"
    /\ ctxCancelled
    /\ hpc' = [hpc EXCEPT ![i] = "shutdown"]
    /\ UNCHANGED <<cfgVars, setupVars, shutdownCtx, ctxCancelled, clientVars, waitGroup, procCount, listeners,
                   startedNow, shutdownRes, shutdownCalls, closeCalls, timedOut, serveVars,
                   inShutdown>>

\* Variant of CycleServeEnded that takes the whole group down with the listener.
CycleServeEnded_StopAll(i) ==
    /\ hpc[i] = "select"
    /\ serveErrCh[i] # "empty"
    /\ serveErrCh' = [serveErrCh EXCEPT ![i] = "empty"]
    /\ hpc' = [hpc EXCEPT ![i] = "dec_count"]
    /\ inShutdown' = [j \in Idx |-> IF j <= NumServers THEN TRUE ELSE inShutdown[j]]
    /\ UNCHANGED <<cfgVars, setupVars, shutdownCtx, ctxCancelled, clientVars, waitGroup, procCount, listeners,
                   startedNow, shutdownRes, shutdownCalls, closeCalls, timedOut, spc>>

\* Outer select, case err := <-serveErrCh: the serve operation ended on its own.
CycleServeEnded(i) ==
    /\ hpc[i] = "select"
    /\ serveErrCh[i] # "empty"
    /\ serveErrCh' = [serveErrCh EXCEPT ![i] = "empty"]
    /\ hpc' = [hpc EXCEPT ![i] = "dec_count"]
    /\ UNCHANGED <<cfgVars, setupVars, shutdownCtx, ctxCancelled, clientVars, waitGroup, procCount, listeners,
                   startedNow, shutdownRes, shutdownCalls, closeCalls, timedOut, spc, inShutdown>>

\* What http.Server.Shutdown and http.Server.Close do to the listener of server
\* i: a listener the serve operation has registered is closed.
CloseTracked(i) ==
    [listeners EXCEPT ![i] = IF spc[i] = "serving" THEN "closed" ELSE @]

\* Variant of ShutdownContext that derives the context from ctx itself.
ShutdownContext_Attached(parentCancelled, timeout) ==
    IF parentCancelled THEN "cancelled"
    ELSE IF timeout <= 0 THEN "expired" ELSE "live"

\* context.WithTimeout(context.WithoutCancel(ctx), g.shutdownTimeout) as
\* Shutdown receives it: "cancelled" is a context whose Err is Canceled,
\* "expired" one whose own deadline has passed, "live" one that is not done.
\* The cancellation of ctx is not inherited, and a timeout that is not
\* positive gives a deadline that has passed when the context is made.
ShutdownContext(parentCancelled, timeout) ==
    IF timeout <= 0 THEN "expired" ELSE "live"

\* Variant of CycleShutdown that does not call Close after a failed Shutdown.
CycleShutdown_NoClose(i) ==
    /\ hpc[i] = "shutdown"
    /\ inShutdown' = [inShutdown EXCEPT ![i] = TRUE]
    /\ listeners' = [listeners EXCEPT ![i] = IF spc[i] = "serving" THEN "closed" ELSE @]
    /\ shutdownCalls' = [shutdownCalls EXCEPT ![i] = @ + 1]
    /\ shutdownCtx' = [shutdownCtx EXCEPT ![i] = ShutdownContext(ctxCancelled, shutdownTimeout)]
    /\ \E res \in {"nil", "err"} :
          /\ shutdownRes' = [shutdownRes EXCEPT ![i] = res]
          /\ hpc' = [hpc EXCEPT ![i] = "await"]
    /\ UNCHANGED <<cfgVars, setupVars, ctxCancelled, clientVars, waitGroup, procCount, startedNow,
                   closeCalls, timedOut, serveVars>>

\* server.Shutdown(shutdownCtx): returns nil, or an error when the timeout of
\* shutdownCtx expires first.
CycleShutdown(i) ==
    /\ hpc[i] = "shutdown"
    /\ inShutdown' = [inShutdown EXCEPT ![i] = TRUE]
    /\ listeners' = CloseTracked(i)
    /\ shutdownCalls' = [shutdownCalls EXCEPT ![i] = @ + 1]
    /\ shutdownCtx' = [shutdownCtx EXCEPT ![i] = ShutdownContext(ctxCancelled, shutdownTimeout)]
    /\ \E res \in {"nil", "err"} :
          /\ shutdownRes' = [shutdownRes EXCEPT ![i] = res]
          /\ hpc' = [hpc EXCEPT ![i] = IF res = "err" THEN "close" ELSE "await"]
    /\ UNCHANGED <<cfgVars, setupVars, ctxCancelled, clientVars, waitGroup, procCount, startedNow,
                   closeCalls, timedOut, serveVars>>

\* Variant of CycleClose that asks for a second graceful shutdown first.
CycleClose_ShutdownAgain(i) ==
    /\ hpc[i] = "close"
    /\ inShutdown' = [inShutdown EXCEPT ![i] = TRUE]
    /\ listeners' = CloseTracked(i)
    /\ shutdownCalls' = [shutdownCalls EXCEPT ![i] = @ + 1]
    /\ closeCalls' = [closeCalls EXCEPT ![i] = @ + 1]
    /\ hpc' = [hpc EXCEPT ![i] = "await"]
    /\ UNCHANGED <<cfgVars, setupVars, shutdownCtx, ctxCancelled, clientVars, waitGroup, procCount, startedNow,
                   shutdownRes, timedOut, serveVars>>

\* server.Close() after a failed Shutdown.
CycleClose(i) ==
    /\ hpc[i] = "close"
    /\ inShutdown' = [inShutdown EXCEPT ![i] = TRUE]
    /\ listeners' = CloseTracked(i)
    /\ closeCalls' = [closeCalls EXCEPT ![i] = @ + 1]
    /\ hpc' = [hpc EXCEPT ![i] = "await"]
    /\ UNCHANGED <<cfgVars, setupVars, shutdownCtx, ctxCancelled, clientVars, waitGroup, procCount, startedNow,
                   shutdownRes, shutdownCalls, timedOut, serveVars>>

\* Inner select, case err := <-serveErrCh.
CycleAwaitServe(i) ==
    /\ hpc[i] = "await"
    /\ serveErrCh[i] # "empty"
    /\ serveErrCh' = [serveErrCh EXCEPT ![i] = "empty"]
    /\ hpc' = [hpc EXCEPT ![i] = "dec_count"]
    /\ UNCHANGED <<cfgVars, setupVars, shutdownCtx, ctxCancelled, clientVars, waitGroup, procCount, listeners,
                   startedNow, shutdownRes, shutdownCalls, closeCalls, timedOut, spc, inShutdown>>

\* Variant of CycleTimeout without the timer: the inner select has one case.
CycleTimeout_NoTimer(i) ==
    /\ hpc[i] = "await"
    /\ FALSE
    /\ UNCHANGED vars

\* Variant of CycleTimeout that calls server.Close when the timer fires.
CycleTimeout_Close(i) ==
    /\ hpc[i] = "await"
    /\ timedOut' = [timedOut EXCEPT ![i] = TRUE]
    /\ closeCalls' = [closeCalls EXCEPT ![i] = @ + 1]
    /\ inShutdown' = [inShutdown EXCEPT ![i] = TRUE]
    /\ listeners' = [listeners EXCEPT ![i] = IF spc[i] = "serving" THEN "closed" ELSE @]
    /\ hpc' = [hpc EXCEPT ![i] = "dec_count"]
    /\ UNCHANGED <<cfgVars, setupVars, shutdownCtx, ctxCancelled, clientVars, waitGroup, procCount, startedNow,
                   shutdownRes, shutdownCalls, serveVars>>

\* Inner select, case <-time.After(serverShutdownTimeout): only a log line.
CycleTimeout(i) ==
    /\ hpc[i] = "await"
    /\ timedOut' = [timedOut EXCEPT ![i] = TRUE]
    /\ hpc' = [hpc EXCEPT ![i] = "dec_count"]
    /\ UNCHANGED <<cfgVars, setupVars, shutdownCtx, ctxCancelled, clientVars, waitGroup, procCount, listeners,
                   startedNow, shutdownRes, shutdownCalls, closeCalls, serveVars, inShutdown>>

\* Variant of CycleDecCount that keeps the unit of a goroutine that timed out.
CycleDecCount_KeepOnTimeout(i) ==
    /\ hpc[i] = "dec_count"
    /\ procCount' = IF timedOut[i] THEN procCount ELSE procCount - 1
    /\ hpc' = [hpc EXCEPT ![i] = "done_wait"]
    /\ UNCHANGED <<cfgVars, setupVars, shutdownCtx, ctxCancelled, clientVars, waitGroup, listeners, startedNow,
                   shutdownRes, shutdownCalls, closeCalls, timedOut, serveVars, inShutdown>>

\* Deferred g.procCount.Add(-1): the later defer runs first.
CycleDecCount(i) ==
    /\ hpc[i] = "dec_count"
    /\ procCount' = procCount - 1
    /\ hpc' = [hpc EXCEPT ![i] = "done_wait"]
    /\ UNCHANGED <<cfgVars, setupVars, shutdownCtx, ctxCancelled, clientVars, waitGroup, listeners, startedNow,
                   shutdownRes, shutdownCalls, closeCalls, timedOut, serveVars, inShutdown>>

\* Variant of CycleDone that releases the join only after a cancellation.
CycleDone_CancelOnly(i) ==
    /\ hpc[i] = "done_wait"
    /\ waitGroup' = IF shutdownCalls[i] > 0 THEN waitGroup - 1 ELSE waitGroup
    /\ hpc' = [hpc EXCEPT ![i] = "exited"]
    /\ UNCHANGED <<cfgVars, setupVars, shutdownCtx, ctxCancelled, clientVars, procCount, listeners, startedNow,
                   shutdownRes, shutdownCalls, closeCalls, timedOut, serveVars, inShutdown>>

\* Deferred g.waitGroup.Done(): the goroutine exits.
CycleDone(i) ==
    /\ hpc[i] = "done_wait"
    /\ waitGroup' = waitGroup - 1
    /\ hpc' = [hpc EXCEPT ![i] = "exited"]
    /\ UNCHANGED <<cfgVars, setupVars, shutdownCtx, ctxCancelled, clientVars, procCount, listeners, startedNow,
                   shutdownRes, shutdownCalls, closeCalls, timedOut, serveVars, inShutdown>>

\* startServer calls Serve / ServeTLS: on a server already shut down the call
\* closes the listener and returns ErrServerClosed at once, so nil is sent;
\* otherwise the listener is registered and the accept loop runs.
ServeBegin(i) ==
    /\ spc[i] = "spawned"
    /\ IF inShutdown[i]
          THEN /\ listeners' = [listeners EXCEPT ![i] = "closed"]
               /\ serveErrCh' = [serveErrCh EXCEPT ![i] = "nil"]
               /\ spc' = [spc EXCEPT ![i] = "done"]
          ELSE /\ spc' = [spc EXCEPT ![i] = "serving"]
               /\ UNCHANGED <<listeners, serveErrCh>>
    /\ UNCHANGED <<cfgVars, setupVars, ctxCancelled, clientVars, waitGroup, procCount, cycleVars,
                   inShutdown>>

\* Variant of ServeReturn that sends the error of the serve operation as it is.
ServeReturn_SendClosedErr(i) ==
    /\ spc[i] = "serving"
    /\ listeners' = [listeners EXCEPT ![i] = "closed"]
    /\ serveErrCh' = [serveErrCh EXCEPT ![i] = "err"]
    /\ spc' = [spc EXCEPT ![i] = "done"]
    /\ UNCHANGED <<cfgVars, setupVars, ctxCancelled, clientVars, waitGroup, procCount, cycleVars,
                   inShutdown>>

\* The serve operation returns: with ErrServerClosed after Shutdown or Close
\* (nil is sent), or on its own with another error (the error is sent). Either
\* way Serve closes its listener on return.
ServeReturn(i) ==
    /\ spc[i] = "serving"
    /\ listeners' = [listeners EXCEPT ![i] = "closed"]
    /\ serveErrCh' = [serveErrCh EXCEPT ![i] = IF inShutdown[i] THEN "nil" ELSE "err"]
    /\ spc' = [spc EXCEPT ![i] = "done"]
    /\ UNCHANGED <<cfgVars, setupVars, ctxCancelled, clientVars, waitGroup, procCount, cycleVars,
                   inShutdown>>

Cycle(i) ==
    \/ CycleStart(i)
    \/ CycleCancelled(i)
    \/ CycleServeEnded(i)
    \/ CycleShutdown(i)
    \/ CycleClose(i)
    \/ CycleAwaitServe(i)
    \/ CycleTimeout(i)
    \/ CycleDecCount(i)
    \/ CycleDone(i)

Next ==
    \/ Cancel
    \/ StartAllEnter
    \/ BindListener
    \/ StartAllAddWait
    \/ StartAllAddCount
    \/ StartAllGo
    \/ WaitCall
    \/ WaitReturn
    \/ \E i \in 1..NumServers : Cycle(i)
    \/ \E i \in 1..NumServers : ServeBegin(i)
    \/ \E i \in 1..NumServers : ServeReturn(i)

Spec == Init /\ [][Next]_vars

\* Fair scheduling: a runnable goroutine eventually runs (the caller inside
\* StartAll included), a timer eventually fires and Wait returns once the
\* counter is zero. Nothing is assumed of the serve operation: it may never
\* begin and never return.
FairSpec ==
    /\ Spec
    /\ \A i \in Idx : WF_vars(Cycle(i))
    /\ WF_vars(WaitReturn)
    /\ WF_vars(BindListener \/ StartAllAddWait \/ StartAllAddCount \/ StartAllGo)

----
\* States of a listener.

\* Serving: the goroutine of listener i is accounted for and has observed
\* neither the cancellation nor the end of its serve operation.
Serving(i) ==
    \/ hpc[i] \in {"start", "select"}
    \/ cpc = "sa_go" /\ loopIdx = i

\* Shutting-down: the goroutine observed the cancellation and has not finished
\* the shutdown sequence.
ShuttingDown(i) == hpc[i] \in {"shutdown", "close", "await"}

\* The goroutine of listener i holds its unit of the serving counter.
Counted(i) == Serving(i) \/ ShuttingDown(i) \/ hpc[i] = "dec_count"

\* Every listener of a started group has terminated.
AllTerminated == NumServers > 0 /\ \A i \in 1..NumServers : hpc[i] = "exited"

\* No StartAll call is in progress, every goroutine that was started has
\* exited and no WaitAllServersShutdown call is blocked.
Quiescent ==
    /\ \A i \in Idx : hpc[i] \in {"idle", "exited"}
    /\ cpc \in {"init", "sa_ret", "wret"}

\* The last StartAll call failed in bindListeners.
BindFailed == \E i \in 1..NumServers : saErr = ErrListen(serverNames[i])

\* The goroutine of listener i was started by the current StartAll call.
StartedNow(i) == startedNow[i]

----
\* C1: when StartAll fails because the bind of server k fails, the listeners of
\* servers 1..k-1 are closed, servers k.. are not bound, the error names
\* server k, no goroutine was started by the call, and the join counter is
\* zero, so that a following WaitAllServersShutdown does not block.
C1_BindFailureUnwinds ==
    (cpc \in {"sa_ret", "waiting"} /\ BindFailed) =>
        /\ loopIdx \in 1..NumServers
        /\ saErr = ErrListen(serverNames[loopIdx])
        /\ \A j \in 1..NumServers :
              listeners[j] = IF j < loopIdx THEN "closed" ELSE "none"
        /\ \A j \in 1..NumServers : ~StartedNow(j) /\ hpc[j] \in {"idle", "exited"}
        /\ waitGroup = 0
        /\ procCount = 0

C1_Witness ==
    /\ cpc = "waiting"
    /\ NumServers >= 2
    /\ saErr = ErrListen(serverNames[2])
    /\ listeners[1] = "closed"

\* C2: when WaitAllServersShutdown has returned after a successful StartAll of
\* N servers and the cancellation, all N goroutines of that call have exited.
C2_WaitJoinsAll ==
    (cpc = "wret" /\ saErr = ErrNone /\ ctxCancelled) =>
        \A i \in 1..NumServers : StartedNow(i) /\ hpc[i] = "exited"

C2_Witness ==
    /\ cpc = "wret"
    /\ saErr = ErrNone
    /\ ctxCancelled
    /\ NumServers >= 2
    /\ \A i \in 1..NumServers : hpc[i] = "exited"
    /\ \E i \in 1..NumServers :
          shutdownRes[i] = "err" /\ closeCalls[i] = 1 /\ timedOut[i]

\* C3: under fair scheduling, the cancellation leads to a state in which
\* every goroutine that was started has exited and no WaitAllServersShutdown
\* is pending, whatever Shutdown returns and even if the serve operation
\* never reports completion.
C3_Converges == ctxCancelled ~> Quiescent

C3_Witness ==
    /\ cpc = "wret"
    /\ ctxCancelled
    /\ \E i \in 1..NumServers :
          /\ hpc[i] = "exited"
          /\ shutdownRes[i] = "err"
          /\ timedOut[i]
          /\ spc[i] = "spawned"

\* C4: a goroutine is started only when every server of the group has a
\* listener bound in this call, each still open unless its own goroutine is
\* already running; and when StartAll returns nil every server has a listener
\* of this call and a goroutine of this call, and no other goroutine exists.
C4_StartAfterAllBound ==
    [][ /\ \A i \in Idx :
              (hpc'[i] = "start" /\ hpc[i] # "start") =>
                  /\ i \in 1..NumServers
                  /\ \A j \in 1..NumServers :
                        \/ listeners[j] = "bound"
                        \/ listeners[j] = "closed" /\ StartedNow(j)
        /\ (cpc' = "sa_ret" /\ cpc # "sa_ret" /\ saErr' = ErrNone) =>
              /\ \A j \in 1..NumServers :
                    /\ listeners'[j] # "none"
                    /\ startedNow'[j]
                    /\ hpc'[j] # "idle"
              /\ \A j \in Idx \ (1..NumServers) : ~startedNow'[j] /\ hpc'[j] = "idle"
      ]_vars

C4_Witness ==
    /\ cpc = "sa_ret"
    /\ saErr = ErrNone
    /\ NumServers >= 2
    /\ \A j \in 1..NumServers : listeners[j] = "bound" /\ StartedNow(j)

\* C5: Shutdown and Close are issued on a server only by its own goroutine
\* after the cancellation; a goroutine leaves Serving only on the cancellation
\* or on the end of its own serve operation; and the step that observes the
\* end of a serve operation changes no other goroutine, listener or server.
C5_ServeEndIsolated ==
    [][ \A i \in Idx :
          /\ (\/ shutdownCalls'[i] > shutdownCalls[i]
              \/ closeCalls'[i] > closeCalls[i]
              \/ inShutdown'[i] /\ ~inShutdown[i])
                 => (ctxCancelled /\ ShuttingDown(i))
          /\ (hpc[i] \in {"start", "select"} /\ hpc'[i] \notin {"start", "select"})
                 => (ctxCancelled \/ serveErrCh[i] # "empty")
          /\ (hpc[i] = "select" /\ hpc'[i] = "dec_count")
                 => /\ \A j \in Idx \ {i} : hpc'[j] = hpc[j]
                    /\ listeners' = listeners
                    /\ inShutdown' = inShutdown
      ]_vars

C5_Witness ==
    /\ ~ctxCancelled
    /\ \E i, j \in 1..NumServers :
          /\ i # j
          /\ startedNow[i] /\ startedNow[j]
          /\ hpc[i] = "exited"
          /\ shutdownCalls[i] = 0
          /\ hpc[j] = "select"
          /\ spc[j] = "serving"
          /\ listeners[j] = "bound"
          /\ ~inShutdown[j]

\* C6: once the goroutine is past the shutdown sequence, Close was called on
\* the server exactly when Shutdown returned an error.
C6_ForceCloseOnError ==
    \A i \in 1..NumServers :
        (hpc[i] \in {"await", "dec_count", "done_wait", "exited"} /\ shutdownCalls[i] > 0) =>
            /\ shutdownRes[i] = "err" => (closeCalls[i] = 1 /\ inShutdown[i])
            /\ shutdownRes[i] = "nil" => closeCalls[i] = 0

C6_Witness ==
    \E i, j \in 1..NumServers :
        /\ hpc[i] = "await" /\ shutdownRes[i] = "err" /\ closeCalls[i] = 1
        /\ hpc[j] = "exited" /\ shutdownRes[j] = "nil" /\ closeCalls[j] = 0

\* C7 as stated: a goroutine that left the inner select by the safety timer
\* has force-closed its server.
C7_TimeoutForcesClose ==
    \A i \in 1..NumServers : timedOut[i] => closeCalls[i] >= 1

\* C7 amended: when the safety timer fires the goroutine only stops waiting
\* and goes on to exit; Close has been called exactly when Shutdown had
\* returned an error, never because of the timer.
C7_TimeoutOnlyStopsWaiting ==
    \A i \in 1..NumServers :
        timedOut[i] =>
            /\ hpc[i] \in {"dec_count", "done_wait", "exited"}
            /\ closeCalls[i] = (IF shutdownRes[i] = "err" THEN 1 ELSE 0)

C7_Witness ==
    \E i \in 1..NumServers :
        /\ timedOut[i]
        /\ shutdownRes[i] = "nil"
        /\ closeCalls[i] = 0
        /\ spc[i] # "done"
        /\ hpc[i] = "exited"

\* C8: a StartAll call made with the context already cancelled or on a group
\* without servers returns ErrContext or ErrNoServers and leaves listeners,
\* goroutines, the serving counter and the join counter as they were.
C8_FailFast ==
    [][ (ClientIdle /\ cpc' \in {"sa_bind", "sa_ret"} /\ <<cpc, saErr>>' # <<cpc, saErr>>
         /\ (ctxCancelled \/ NumServers = 0)) =>
            /\ cpc' = "sa_ret"
            /\ saErr' = (IF ctxCancelled THEN ErrContext ELSE ErrNoServers)
            /\ UNCHANGED <<listeners, hpc, startedNow, spc, procCount, waitGroup>>
      ]_vars

C8_Witness ==
    /\ cpc = "sa_ret"
    /\ saErr = ErrContext
    /\ NumServers >= 1
    /\ \A i \in Idx : listeners[i] = "none" /\ hpc[i] = "idle"
    /\ waitGroup = 0 /\ procCount = 0

\* C9 as stated: once every listener of the group has terminated, no step
\* takes the group back to binding or a listener back to bound or Serving.
C9_TerminatedIsFinal ==
    [][ AllTerminated =>
          /\ cpc' # "sa_bind"
          /\ \A i \in Idx : listeners'[i] = "bound" => listeners[i] = "bound"
          /\ \A i \in Idx : Serving(i)' => Serving(i)
      ]_vars

\* C10 as stated: ServerCount is the number of listeners in the Serving state.
C10_CountIsServing ==
    ServerCount = Cardinality({i \in 1..NumServers : Serving(i)})

\* C10 amended: ServerCount is the number of listeners whose goroutine holds
\* its unit of the counter: those Serving, those Shutting-down, and those past
\* the select whose deferred decrement has not run yet.
C10_CountIsNotYetExited ==
    ServerCount = Cardinality({i \in 1..NumServers : Counted(i)})

C10_Witness ==
    /\ ServerCount = 2
    /\ \E i, j \in 1..NumServers :
          /\ Serving(i) /\ spc[i] = "serving"
          /\ ShuttingDown(j)

\* C29: Shutdown is invoked at most once per started server: no call is on
\* record while the goroutine has not observed the cancellation, the step
\* that leaves the outer select because the serve operation ended makes none,
\* and the step that follows the observed cancellation makes the one call,
\* which stays the only one.
C29_OneShutdownAttempt ==
    [][\A i \in 1..NumServers :
          /\ shutdownCalls'[i] <= 1
          /\ hpc[i] \in {"start", "select", "shutdown"} => shutdownCalls[i] = 0
          /\ (hpc[i] = "select" /\ hpc'[i] = "dec_count") => shutdownCalls'[i] = 0
          /\ (hpc[i] = "shutdown" /\ hpc'[i] # "shutdown") => shutdownCalls'[i] = 1
          /\ hpc[i] \in {"close", "await"} => (shutdownCalls[i] = 1 /\ ctxCancelled)
      ]_vars

C29_Witness ==
    \E i, j \in 1..NumServers :
        /\ hpc[i] = "exited" /\ shutdownCalls[i] = 1
        /\ hpc[j] = "exited" /\ shutdownCalls[j] = 0 /\ spc[j] = "done"

\* C34: no step of StartAll, of WaitAllServersShutdown or of a goroutine
\* changes the servers, their names, the shutdown timeout or the logger of
\* the Group; of its fields only the two counters change.
C34_ConfigurationIsFrozen ==
    [][/\ servers' = servers
       /\ serverNames' = serverNames
       /\ shutdownTimeout' = shutdownTimeout
       /\ log' = log
      ]_vars

C34_Witness ==
    /\ cpc = "wret"
    /\ AllTerminated
    /\ servers = <<1, 2>>
    /\ serverNames = << <<"name", 1>>, <<"name", 2>> >>
    /\ shutdownTimeout = serverShutdownTimeout
    /\ procCount = 0
    /\ waitGroup = 0
    /\ \A i \in 1..NumServers : shutdownCalls[i] = 1

\* The join counter holds a unit for listener i: StartAll has made the Add
\* for it and its goroutine, started or about to be, has not made its Done.
Joined(i) ==
    \/ cpc \in {"sa_count", "sa_go"} /\ loopIdx = i
    \/ hpc[i] \in {"start", "select", "shutdown", "close", "await", "dec_count", "done_wait"}

\* C35: the join counter is the number of listeners whose Add has been made
\* and whose goroutine has not exited, whether that goroutine observed the
\* cancellation or the end of its serve operation; it is never negative and
\* it is zero exactly when no such listener is left.
C35_JoinCounterBalanced ==
    /\ waitGroup = Cardinality({i \in 1..NumServers : Joined(i)})
    /\ waitGroup >= 0
    /\ waitGroup = 0 <=>
          /\ cpc \notin {"sa_count", "sa_go"}
          /\ \A i \in 1..NumServers : hpc[i] \in {"idle", "exited"}

C35_Witness ==
    \E i, j \in 1..NumServers :
        /\ hpc[i] = "exited" /\ shutdownCalls[i] = 0 /\ startedNow[i]
        /\ hpc[j] = "done_wait" /\ shutdownCalls[j] = 1
        /\ waitGroup = 1

\* C36: while the serve goroutine of a listener has not sent, its channel of
\* capacity one is empty, so its send finds room; the step that ends the
\* goroutine is the one that sends, nil when the server had been shut down
\* or closed; and once it has ended, the channel only loses its value.
C36_OneSendNeverBlocks ==
    [][\A i \in 1..NumServers :
          /\ spc[i] \in {"spawned", "serving"} => serveErrCh[i] = "empty"
          /\ (spc[i] # "done" /\ spc'[i] = "done") =>
                /\ serveErrCh'[i] # "empty"
                /\ inShutdown[i] => serveErrCh'[i] = "nil"
          /\ (spc[i] = "done" /\ spc'[i] = "done") =>
                serveErrCh'[i] \in {serveErrCh[i], "empty"}
      ]_vars

\* The serve goroutine has sent nil and ended after the goroutine that owns
\* it left by the safety timer and exited.
C36_Witness ==
    \E i \in 1..NumServers :
        /\ hpc[i] = "exited"
        /\ timedOut[i]
        /\ spc[i] = "done"
        /\ serveErrCh[i] = "nil"

\* C37: when WaitAllServersShutdown has returned after a successful StartAll
\* and the cancellation, every listener StartAll bound is closed.
C37_NoListenerOutlivesGroup ==
    (cpc = "wret" /\ saErr = ErrNone /\ ctxCancelled) =>
        \A i \in 1..NumServers : listeners[i] = "closed"

\* The goroutine of listener i has been started and has not exited.
Running(i) ==
    hpc[i] \in {"start", "select", "shutdown", "close", "await", "dec_count", "done_wait"}

\* C38 as stated: ServerCount lies between 0 and the number of servers, is
\* the number of goroutines started and not yet exited, and is 0 when
\* WaitAllServersShutdown has returned.
C38_CountIsRunning ==
    /\ ServerCount \in 0..NumServers
    /\ ServerCount = Cardinality({i \in 1..NumServers : Running(i)})
    /\ cpc = "wret" => ServerCount = 0

\* C38 amended: ServerCount lies between 0 and the number of servers and is 0
\* when WaitAllServersShutdown has returned; it is the number of goroutines
\* started and not yet exited, plus one while StartAll has counted a server
\* whose goroutine it has not started yet, minus the goroutines that have
\* made their decrement and not yet released the join.
C38_CountTracksRunning ==
    /\ ServerCount \in 0..NumServers
    /\ ServerCount = Cardinality({i \in 1..NumServers : Running(i)})
                      + (IF cpc = "sa_go" THEN 1 ELSE 0)
                      - Cardinality({i \in 1..NumServers : hpc[i] = "done_wait"})
    /\ cpc = "wret" => ServerCount = 0
    /\ \A i \in 1..NumServers : hpc[i] = "done_wait" => Joined(i)

C38_Witness ==
    \E i, j \in 1..NumServers :
        /\ hpc[i] = "done_wait"
        /\ hpc[j] = "select"
        /\ ServerCount = 1
        /\ waitGroup = 2

----------------------------------------------------------------------------
(* The shutdown context, for a group of one server and either timeout.     *)

ShutdownTimeoutInit ==
    /\ \E t \in {0, serverShutdownTimeout} :
          /\ ngOptions = <<WithShutdownTimeoutOpt(t), WithServerOpt(1, <<"name", 1>>)>>
          /\ servers = NewGroup(ngOptions).group[1].servers
          /\ serverNames = NewGroup(ngOptions).group[1].serverNames
          /\ shutdownTimeout = NewGroup(ngOptions).group[1].shutdownTimeout
          /\ log = NewGroup(ngOptions).group[1].log
          /\ ngErr = NewGroup(ngOptions).err
    /\ ngState = "group"
    /\ NothingStarted
    /\ TLSUnused
    /\ TryFilesUnused
    /\ HeadersUnused
    /\ MainUnused

ShutdownTimeoutSpec == ShutdownTimeoutInit /\ [][Next]_vars

\* C30: once Shutdown has been invoked for a server, the parent context is
\* cancelled while the context Shutdown received is not: it is live, or its
\* own deadline has passed, which is the case exactly for a group whose
\* shutdown timeout is not positive.
C30_ShutdownContextDetached ==
    \A i \in 1..NumServers :
        shutdownCalls[i] > 0 =>
            /\ ctxCancelled
            /\ shutdownCtx[i] # "cancelled"
            /\ shutdownCtx[i] = "expired" <=> shutdownTimeout <= 0
            /\ shutdownCtx[i] = "live" <=> shutdownTimeout > 0

C30_Witness ==
    /\ ctxCancelled
    /\ shutdownCalls[1] = 1
    /\ shutdownCtx[1] = "live"
    /\ shutdownTimeout = serverShutdownTimeout

----------------------------------------------------------------------------
(* NewGroup over every short list of options.                              *)

\* Every sequence over S of length at most n.
SeqsUpTo(S, n) == UNION {[1..k -> S] : k \in 0..n}

\* A nil server or a real one; names; a nil logger or a custom one; a timeout.
ServerChoices == {NilServer, 1}
NameChoices == {"a", "b"}
LoggerChoices == {NilLogger, "custom"}
TimeoutChoices == {0}

OptionChoices ==
    {WithServerOpt(s, n) : s \in ServerChoices, n \in NameChoices}
    \cup {WithServersOpt(ss, ns) : ss \in SeqsUpTo(ServerChoices, MaxSlice),
                                   ns \in SeqsUpTo({"a"}, MaxSlice)}
    \cup {WithLoggerOpt(l) : l \in LoggerChoices}
    \cup {WithShutdownTimeoutOpt(t) : t \in TimeoutChoices}

\* No Group has been asked for.
GroupUnused ==
    /\ ngOptions = <<>>
    /\ ngState = "input"
    /\ ngErr = <<>>
    /\ servers = <<>>
    /\ serverNames = <<>>
    /\ shutdownTimeout = serverShutdownTimeout
    /\ log = NilLogger
    /\ NothingStarted

\* Before NewGroup is called: a list of options, no Group.
NewGroupInit ==
    /\ ngOptions \in SeqsUpTo(OptionChoices, MaxOptions)
    /\ ngState = "input"
    /\ ngErr = <<>>
    /\ servers = <<>>
    /\ serverNames = <<>>
    /\ shutdownTimeout = serverShutdownTimeout
    /\ log = NilLogger
    /\ NothingStarted
    /\ TLSUnused
    /\ TryFilesUnused
    /\ HeadersUnused
    /\ MainUnused

\* group, err := NewGroup(options...): on success the Group's fields are those
\* of the returned Group, on failure there is no Group.
NewGroupCall ==
    /\ ngState = "input"
    /\ LET res == NewGroup(ngOptions)
       IN IF res.group = NilGroup
          THEN /\ ngState' = "failed"
               /\ ngErr' = res.err
               /\ UNCHANGED <<cfgVars, shutdownTimeout, log>>
          ELSE /\ ngState' = "group"
               /\ ngErr' = res.err
               /\ servers' = res.group[1].servers
               /\ serverNames' = res.group[1].serverNames
               /\ shutdownTimeout' = res.group[1].shutdownTimeout
               /\ log' = res.group[1].log
    /\ UNCHANGED <<ngOptions, tlsIn, tlsOut, tfIn, tfOut, hdIn, hdOut, mainSt, ctxCancelled, clientVars,
                   waitGroup, procCount, listeners, cycleVars, serveVars, inShutdown>>

\* StartAll is called on the Group NewGroup returned.
StartAllOnGroup ==
    /\ ngState = "group"
    /\ StartAllEnter

NewGroupNext ==
    \/ NewGroupCall
    \/ StartAllOnGroup

NewGroupSpec == NewGroupInit /\ [][NewGroupNext]_vars

\* Some WithServer or WithServers option of the list carries a nil server.
CarriesNil(opt) == \E i \in 1..Len(opt.servers) : opt.servers[i] = NilServer
SomeCarriesNil == \E k \in 1..Len(ngOptions) : CarriesNil(ngOptions[k])

\* A WithServers option whose two slices differ in length.
Mismatched(opt) == opt.kind = "WithServers" /\ Len(opt.servers) # Len(opt.names)
SomeMismatched == \E k \in 1..Len(ngOptions) : Mismatched(ngOptions[k])

NewGroupReturned == ngState # "input"

\* C11 as stated: whenever some WithServer or WithServers option carries a nil
\* server, NewGroup returns an error that wraps ErrNilServer and no Group, and a
\* Group that exists contains no nil server.
C11_NilServerReportsErrNilServer ==
    /\ (NewGroupReturned /\ SomeCarriesNil)
          => (ngState = "failed" /\ Wraps(ngErr, ErrNilServer))
    /\ ngState = "group" => \A i \in 1..Len(servers) : servers[i] # NilServer

\* C11 amended: an option list that carries a nil server makes NewGroup return
\* an error and no Group, and a Group that exists contains no nil server; the
\* error wraps ErrNilServer when a nil server sits in a WithServer option or in
\* a WithServers option whose slices have equal lengths; a WithServers option
\* with slices of different lengths reports only ErrServerNameLenMismatch.
C11_NilServerRejected ==
    /\ (NewGroupReturned /\ SomeCarriesNil)
          => (ngState = "failed" /\ Len(ngErr) > 0 /\ servers = <<>>)
    /\ (NewGroupReturned
          /\ \E k \in 1..Len(ngOptions) :
                CarriesNil(ngOptions[k]) /\ ~Mismatched(ngOptions[k]))
          => Wraps(ngErr, ErrNilServer)
    /\ (NewGroupReturned /\ SomeCarriesNil
          /\ \A k \in 1..Len(ngOptions) :
                CarriesNil(ngOptions[k]) => Mismatched(ngOptions[k]))
          => (~Wraps(ngErr, ErrNilServer) /\ Wraps(ngErr, ErrServerNameLenMismatch))
    /\ ngState = "group" => \A i \in 1..Len(servers) : servers[i] # NilServer

\* NewGroup rejected a list whose only nil server sits in a WithServers option
\* with mismatched slices, next to an option that registered a server.
C11_Witness ==
    /\ ngState = "failed"
    /\ SomeCarriesNil
    /\ ~Wraps(ngErr, ErrNilServer)
    /\ Wraps(ngErr, ErrServerNameLenMismatch)
    /\ \E k \in 1..Len(ngOptions) :
          ngOptions[k].kind = "WithServer" /\ ~CarriesNil(ngOptions[k])

\* C12: every Group NewGroup returns has as many servers as names; a WithServers
\* option with slices of different lengths makes NewGroup fail with an error
\* wrapping ErrServerNameLenMismatch; StartAll on a returned Group never
\* reports the mismatch.
C12_LengthsAgree ==
    /\ ngState = "group" =>
          /\ Len(servers) = Len(serverNames)
          /\ StartAllPrecheck # ErrServerNameLenMismatch
          /\ saErr # ErrServerNameLenMismatch
    /\ (NewGroupReturned /\ SomeMismatched)
          => (ngState = "failed" /\ Wraps(ngErr, ErrServerNameLenMismatch))

\* StartAll ran its checks on a Group built from a WithServers option of two
\* servers and two names.
C12_Witness ==
    /\ ngState = "group"
    /\ saErr = ErrNone
    /\ cpc = "sa_bind"
    /\ Len(servers) = Len(serverNames)
    /\ \E k \in 1..Len(ngOptions) :
          ngOptions[k].kind = "WithServers" /\ Len(ngOptions[k].servers) = MaxSlice

----------------------------------------------------------------------------
(* TLS configuration resolution: generateTLSConfig.                        *)

\* Largest number of ACME domains and of client-CA paths given.
MaxDomains == 2
MaxClientCAs == 2

\* The nil error and the errors of the TLS functions, by their message.
NilErr == "nil"
ErrCertKeyPair == "cert and key must both be given or not given"
ErrCertOrACME == "either cert+key or acmeDomains are to be given"
ErrClientCAsAlone == "clientCAs are only valid if cert+key or acmeDomains are given"
ErrLoadCertificate == "could not load certificate"
ErrReadClientCA == "could not read client CA file"

\* The errors that wrap errTLSConfig.
errTLSConfig == {ErrCertKeyPair, ErrCertOrACME, ErrClientCAsAlone}

\* The nil *tls.Config; a returned configuration is <<c>>.
NilConfig == <<>>

\* The files of the model. tls.LoadX509KeyPair succeeds on the pair
\* cert.pem / key.pem only; os.ReadFile fails on missing.pem; ca.pem holds a
\* PEM certificate and garbage.pem holds none.
CertFiles == {"cert.pem", "bad-cert.pem"}
KeyFiles == {"key.pem"}
CAFiles == {"ca.pem", "garbage.pem", "missing.pem"}
LoadX509KeyPairOK(certFile, keyFile) == certFile = "cert.pem" /\ keyFile = "key.pem"
ReadFileOK(path) == path # "missing.pem"
HasPEMCertificate(path) == path = "ca.pem"

\* Variant of validateTLSParams whose third check is missing.
validateTLSParams_NoClientCACheck(cert, key, acmeDomains, clientCAs) ==
    IF (Len(cert) > 0) # (Len(key) > 0) THEN ErrCertKeyPair
    ELSE IF Len(cert) > 0 /\ Len(acmeDomains) > 0 THEN ErrCertOrACME
    ELSE NilErr

\* Variant of validateTLSParams whose second check is missing.
validateTLSParams_NoExclusion(cert, key, acmeDomains, clientCAs) ==
    IF (Len(cert) > 0) # (Len(key) > 0) THEN ErrCertKeyPair
    ELSE IF Len(cert) = 0 /\ Len(acmeDomains) = 0 /\ Len(clientCAs) > 0 THEN ErrClientCAsAlone
    ELSE NilErr

\* Variant of validateTLSParams whose first check compares with == for !=.
validateTLSParams_PairInverted(cert, key, acmeDomains, clientCAs) ==
    IF (Len(cert) > 0) = (Len(key) > 0) THEN ErrCertKeyPair
    ELSE IF Len(cert) > 0 /\ Len(acmeDomains) > 0 THEN ErrCertOrACME
    ELSE IF Len(cert) = 0 /\ Len(acmeDomains) = 0 /\ Len(clientCAs) > 0 THEN ErrClientCAsAlone
    ELSE NilErr

\* Variant of validateTLSParams with its first two checks in the other order.
validateTLSParams_ExclusionFirst(cert, key, acmeDomains, clientCAs) ==
    IF Len(cert) > 0 /\ Len(acmeDomains) > 0 THEN ErrCertOrACME
    ELSE IF (Len(cert) > 0) # (Len(key) > 0) THEN ErrCertKeyPair
    ELSE IF Len(cert) = 0 /\ Len(acmeDomains) = 0 /\ Len(clientCAs) > 0 THEN ErrClientCAsAlone
    ELSE NilErr

\* validateTLSParams: the three checks in their order; strings are sequences
\* of characters, so Len is the code's len.
validateTLSParams(cert, key, acmeDomains, clientCAs) ==
    IF (Len(cert) > 0) # (Len(key) > 0) THEN ErrCertKeyPair
    ELSE IF Len(cert) > 0 /\ Len(acmeDomains) > 0 THEN ErrCertOrACME
    ELSE IF Len(cert) = 0 /\ Len(acmeDomains) = 0 /\ Len(clientCAs) > 0 THEN ErrClientCAsAlone
    ELSE NilErr

\* A tls.Config by what the functions below set in it.
TLSConfig(source, cert, key, domains, cache, endpoint) ==
    [source |-> source, certFile |-> cert, keyFile |-> key, hostWhitelist |-> domains,
     cache |-> cache, directoryURL |-> endpoint,
     hasClientCAs |-> FALSE, clientCAs |-> <<>>, clientAuth |-> "NoClientCert"]

\* createCertificateConfig: the key pair is loaded; a configuration holding it.
createCertificateConfig(certFile, keyFile) ==
    IF ~LoadX509KeyPairOK(certFile, keyFile)
    THEN [config |-> NilConfig, err |-> ErrLoadCertificate]
    ELSE [config |-> <<TLSConfig("static", certFile, keyFile, <<>>, "", "")>>,
          err |-> NilErr]

\* createACMEConfig: the configuration of an autocert manager; it cannot fail.
createACMEConfig(acmeDomains, certCache, acmeEndpoint) ==
    <<TLSConfig("acme", "", "", acmeDomains, certCache, acmeEndpoint)>>

\* Variant of configureClientCAs that sets the pool and leaves ClientAuth alone.
configureClientCAs_NoAuth(config, clientCAs) ==
    LET F[i \in 0..Len(clientCAs)] ==
            IF i = 0 THEN [pool |-> <<>>, err |-> NilErr, reads |-> <<>>]
            ELSE IF F[i - 1].err # NilErr THEN F[i - 1]
            ELSE IF ~ReadFileOK(clientCAs[i])
            THEN [F[i - 1] EXCEPT !.err = ErrReadClientCA,
                                  !.reads = Append(@, clientCAs[i])]
            ELSE [pool |-> IF HasPEMCertificate(clientCAs[i])
                           THEN Append(F[i - 1].pool, clientCAs[i])
                           ELSE F[i - 1].pool,
                  err |-> NilErr,
                  reads |-> Append(F[i - 1].reads, clientCAs[i])]
        res == F[Len(clientCAs)]
    IN IF res.err # NilErr
       THEN [config |-> config, err |-> res.err, reads |-> res.reads]
       ELSE [config |-> [config EXCEPT !.hasClientCAs = TRUE, !.clientCAs = res.pool],
             err |-> NilErr, reads |-> res.reads]

\* configureClientCAs: the files are read in order into a new pool, the first
\* read error ends the function; what AppendCertsFromPEM returns is not
\* looked at, so a file without a certificate adds nothing and is no error.
\* The pool and the client authentication are set after the loop only.
configureClientCAs(config, clientCAs) ==
    LET F[i \in 0..Len(clientCAs)] ==
            IF i = 0 THEN [pool |-> <<>>, err |-> NilErr, reads |-> <<>>]
            ELSE IF F[i - 1].err # NilErr THEN F[i - 1]
            ELSE IF ~ReadFileOK(clientCAs[i])
            THEN [F[i - 1] EXCEPT !.err = ErrReadClientCA,
                                  !.reads = Append(@, clientCAs[i])]
            ELSE [pool |-> IF HasPEMCertificate(clientCAs[i])
                           THEN Append(F[i - 1].pool, clientCAs[i])
                           ELSE F[i - 1].pool,
                  err |-> NilErr,
                  reads |-> Append(F[i - 1].reads, clientCAs[i])]
        res == F[Len(clientCAs)]
    IN IF res.err # NilErr
       THEN [config |-> config, err |-> res.err, reads |-> res.reads]
       ELSE [config |-> [config EXCEPT !.hasClientCAs = TRUE, !.clientCAs = res.pool,
                                       !.clientAuth = "RequireAndVerifyClientCert"],
             err |-> NilErr, reads |-> res.reads]

\* What a call returns, and what it touched on the way: loads counts the
\* calls of tls.LoadX509KeyPair, reads lists the client-CA files read.
TLSResult(config, err, loads, reads) ==
    [called |-> TRUE, config |-> config, err |-> err, loads |-> loads, reads |-> reads]

\* generateTLSConfig.
generateTLSConfig(cert, key, acmeDomains, certCache, acmeEndpoint, clientCAs) ==
    IF validateTLSParams(cert, key, acmeDomains, clientCAs) # NilErr
    THEN TLSResult(NilConfig, validateTLSParams(cert, key, acmeDomains, clientCAs), 0, <<>>)
    ELSE IF Len(cert) = 0 /\ Len(acmeDomains) = 0
    THEN TLSResult(NilConfig, NilErr, 0, <<>>)
    ELSE
    LET static == createCertificateConfig(cert, key)
        loads == IF Len(cert) > 0 THEN 1 ELSE 0
        afterCert == IF Len(cert) > 0 THEN static.config ELSE NilConfig
        afterACME == IF Len(acmeDomains) > 0
                     THEN createACMEConfig(acmeDomains, certCache, acmeEndpoint)
                     ELSE afterCert
    IN IF Len(cert) > 0 /\ static.err # NilErr
       THEN TLSResult(NilConfig, static.err, loads, <<>>)
       ELSE IF afterACME # NilConfig /\ Len(clientCAs) > 0
       THEN LET cas == configureClientCAs(afterACME[1], clientCAs)
            IN IF cas.err # NilErr
               THEN TLSResult(NilConfig, cas.err, loads, cas.reads)
               ELSE TLSResult(<<cas.config>>, NilErr, loads, cas.reads)
       ELSE TLSResult(afterACME, NilErr, loads, <<>>)

\* The arguments main passes: flag values, "" and the empty list when a flag
\* is not given.
TLSInputs ==
    [cert : {""} \cup CertFiles,
     key : {""} \cup KeyFiles,
     acmeDomains : SeqsUpTo({"example.org"}, MaxDomains),
     certCache : {"", "/var/cache/acme"},
     acmeEndpoint : {"", "https://acme.test/dir"},
     clientCAs : SeqsUpTo(CAFiles, MaxClientCAs)]

TLSInit ==
    /\ tlsIn \in TLSInputs
    /\ tlsOut = [called |-> FALSE, config |-> NilConfig, err |-> NilErr,
                 loads |-> 0, reads |-> <<>>]
    /\ GroupUnused
    /\ TryFilesUnused
    /\ HeadersUnused
    /\ MainUnused

\* tlsConfig, tlsConfigErr := generateTLSConfig(...)
GenerateTLSConfigCall ==
    /\ ~tlsOut.called
    /\ tlsOut' = generateTLSConfig(tlsIn.cert, tlsIn.key, tlsIn.acmeDomains,
                                   tlsIn.certCache, tlsIn.acmeEndpoint, tlsIn.clientCAs)
    /\ UNCHANGED <<tlsIn, tfIn, tfOut, hdIn, hdOut, mainSt, cfgVars, shutdownTimeout, log, ngOptions, ngState,
                   ngErr, ctxCancelled, clientVars, waitGroup, procCount, listeners,
                   cycleVars, serveVars, inShutdown>>

TLSNext == GenerateTLSConfigCall

TLSSpec == TLSInit /\ [][TLSNext]_vars

TLSCalled == tlsOut.called
StaticGiven == Len(tlsIn.cert) > 0 /\ Len(tlsIn.key) > 0
ACMEGiven == Len(tlsIn.acmeDomains) > 0
ClientCAsGiven == Len(tlsIn.clientCAs) > 0

\* C13: called with a certificate/key pair and a non-empty ACME domain list,
\* generateTLSConfig returns a configuration error and no configuration, and
\* the key pair is never loaded.
C13_StaticAndACMEExclusive ==
    (TLSCalled /\ StaticGiven /\ ACMEGiven)
        => /\ tlsOut.err = ErrCertOrACME
           /\ tlsOut.err \in errTLSConfig
           /\ tlsOut.config = NilConfig
           /\ tlsOut.loads = 0

\* A loadable key pair and ACME domains were given, and the call has returned.
C13_Witness ==
    /\ TLSCalled
    /\ LoadX509KeyPairOK(tlsIn.cert, tlsIn.key)
    /\ Len(tlsIn.acmeDomains) = MaxDomains
    /\ tlsOut.err = ErrCertOrACME

\* C14: called with at least one client-CA path and neither a certificate/key
\* pair nor ACME domains, generateTLSConfig returns a configuration error and
\* no configuration.
C14_ClientCAsNeedIdentity ==
    (TLSCalled /\ ClientCAsGiven /\ ~StaticGiven /\ ~ACMEGiven)
        => /\ tlsOut.err \in errTLSConfig
           /\ tlsOut.config = NilConfig
           /\ tlsOut.reads = <<>>

\* Only a readable client CA was given, and the call returned the third error.
C14_Witness ==
    /\ TLSCalled
    /\ tlsIn.cert = "" /\ tlsIn.key = "" /\ tlsIn.acmeDomains = <<>>
    /\ tlsIn.clientCAs = <<"ca.pem">>
    /\ tlsOut.err = ErrClientCAsAlone

\* C15: with no certificate, key, ACME domain and client CA the call returns
\* the nil configuration and the nil error, whatever the cache directory and
\* the ACME endpoint are.
C15_NothingGivenNoTLS ==
    (TLSCalled /\ tlsIn.cert = "" /\ tlsIn.key = "" /\ ~ACMEGiven /\ ~ClientCAsGiven)
        => /\ tlsOut.config = NilConfig
           /\ tlsOut.err = NilErr
           /\ tlsOut.loads = 0

\* Nothing but a cache directory and an endpoint was given; the call returned nil, nil.
C15_Witness ==
    /\ TLSCalled
    /\ tlsIn.cert = "" /\ tlsIn.key = "" /\ ~ACMEGiven /\ ~ClientCAsGiven
    /\ tlsIn.certCache # "" /\ tlsIn.acmeEndpoint # ""
    /\ tlsOut.config = NilConfig /\ tlsOut.err = NilErr

\* C16: a returned configuration has exactly one identity source: the loaded
\* certificate when cert and key are given (and then no ACME domain is), the
\* ACME manager when domains are given (and then no certificate is); a
\* client-CA pool is attached, with client verification required, exactly to a
\* returned configuration that was asked for client CAs.
C16_OneIdentitySource ==
    /\ (TLSCalled /\ tlsOut.config # NilConfig) =>
          LET c == tlsOut.config[1]
          IN /\ tlsOut.err = NilErr
             /\ StaticGiven # ACMEGiven
             /\ StaticGiven => /\ c.source = "static"
                               /\ c.certFile = tlsIn.cert /\ c.keyFile = tlsIn.key
                               /\ tlsOut.loads = 1
             /\ ACMEGiven => /\ c.source = "acme"
                             /\ c.hostWhitelist = tlsIn.acmeDomains
                             /\ tlsIn.cert = "" /\ tlsIn.key = ""
                             /\ tlsOut.loads = 0
             /\ c.hasClientCAs = ClientCAsGiven
             /\ c.hasClientCAs = (c.clientAuth = "RequireAndVerifyClientCert")
    /\ (TLSCalled /\ tlsOut.config = NilConfig /\ tlsOut.reads # <<>>)
          => tlsOut.err = ErrReadClientCA

\* An ACME configuration was returned with a client-CA pool of MaxClientCAs certificates.
C16_Witness ==
    /\ TLSCalled
    /\ tlsOut.config # NilConfig
    /\ tlsOut.config[1].source = "acme"
    /\ Len(tlsOut.config[1].clientCAs) = MaxClientCAs
    /\ tlsOut.config[1].clientAuth = "RequireAndVerifyClientCert"

\* C17: with client CAs and an identity source given, a client-CA file that is
\* unreadable or holds no PEM certificate makes generateTLSConfig fail and
\* return no configuration.
C17_BadClientCAIsFatal ==
    (TLSCalled /\ ClientCAsGiven /\ (StaticGiven \/ ACMEGiven)
       /\ \E i \in 1..Len(tlsIn.clientCAs) :
             ~ReadFileOK(tlsIn.clientCAs[i]) \/ ~HasPEMCertificate(tlsIn.clientCAs[i]))
        => (tlsOut.err # NilErr /\ tlsOut.config = NilConfig)

\* The rules of the TLS parameters, each on its own: the pair rule, the
\* exclusion rule and the identity rule are violated.
PairRuleViolated == (Len(tlsIn.cert) > 0) # (Len(tlsIn.key) > 0)
ExclusionRuleViolated == (Len(tlsIn.cert) > 0 \/ Len(tlsIn.key) > 0) /\ ACMEGiven
IdentityRuleViolated == ClientCAsGiven /\ ~StaticGiven /\ ~ACMEGiven

\* C31: the configuration error reported is that of the first violated rule
\* in the order pair, exclusion, identity, and a configuration error is
\* reported exactly when a rule is violated.
C31_FirstViolatedRuleReported ==
    TLSCalled =>
        /\ PairRuleViolated => tlsOut.err = ErrCertKeyPair
        /\ (~PairRuleViolated /\ ExclusionRuleViolated) => tlsOut.err = ErrCertOrACME
        /\ (~PairRuleViolated /\ ~ExclusionRuleViolated /\ IdentityRuleViolated)
              => tlsOut.err = ErrClientCAsAlone
        /\ tlsOut.err \in errTLSConfig
              <=> (PairRuleViolated \/ ExclusionRuleViolated \/ IdentityRuleViolated)

C31_Witness ==
    /\ TLSCalled
    /\ PairRuleViolated /\ ExclusionRuleViolated /\ ClientCAsGiven
    /\ Len(tlsIn.cert) > 0
    /\ tlsOut.err = ErrCertKeyPair

----------------------------------------------------------------------------
(* The try-files middleware: addTryFiles.                                  *)
(* A string is the sequence of its parts: the separator "/", a file or     *)
(* directory name (which holds no "/"), and a variable reference "$uri"    *)
(* or "$x" (any name other than uri).                                      *)

\* Largest number of try-file rules given.
MaxRules == 2

Slash == "/"
IndexHTML == "index.html"
UriVar == "$uri"
OtherVar == "$x"

\* strings.HasSuffix(v, "/index.html") and strings.HasSuffix(v, "/")
HasSuffixSlashIndex(v) ==
    Len(v) >= 2 /\ v[Len(v)] = IndexHTML /\ v[Len(v) - 1] = Slash
HasSuffixSlash(v) == Len(v) >= 1 /\ v[Len(v)] = Slash

\* Variant of TrimPrefixSlash that leaves the path as it is.
TrimPrefixSlash_Keep(path) == path

\* strings.TrimPrefix(path, "/")
TrimPrefixSlash(path) ==
    IF Len(path) >= 1 /\ path[1] = Slash THEN SubSeq(path, 2, Len(path)) ELSE path

\* Variant of NormalizeRule that cuts the whole suffix "/index.html".
NormalizeRule_CutSlash(v) ==
    IF HasSuffixSlashIndex(v) THEN SubSeq(v, 1, Len(v) - 2) ELSE v

\* One turn of the registration loop: v[:len(v)-len("index.html")] for a rule
\* that ends with "/index.html".
NormalizeRule(v) ==
    IF HasSuffixSlashIndex(v) THEN SubSeq(v, 1, Len(v) - 1) ELSE v

\* The tryFiles slice addTryFiles builds from tries.
RegisterTryFiles(tries) == [i \in 1..Len(tries) |-> NormalizeRule(tries[i])]

\* os.Expand(filename, expandFunc): $uri becomes the request path, any other
\* variable the empty string, everything else stays.
Expand(filename, uri) ==
    LET F[i \in 0..Len(filename)] ==
            IF i = 0 THEN <<>>
            ELSE IF filename[i] = UriVar THEN F[i - 1] \o uri
            ELSE IF filename[i] = OtherVar THEN F[i - 1]
            ELSE Append(F[i - 1], filename[i])
    IN F[Len(filename)]

\* Variant of TriedPath that tries an empty expansion as it is.
TriedPath_KeepEmpty(filename, uri) == Expand(filename, uri)

\* The path tried for a rule: its expansion, "/" when that is empty.
TriedPath(filename, uri) ==
    IF Len(Expand(filename, uri)) = 0 THEN <<Slash>> ELSE Expand(filename, uri)

\* fs.ValidPath: names separated by single slashes, no leading or trailing
\* slash, not empty.
ValidPath(name) ==
    /\ Len(name) % 2 = 1
    /\ \A i \in 1..Len(name) : (name[i] = Slash) = (i % 2 = 0)

\* fileSystem.Stat(name) returns no error: the content root (files and
\* directories, as paths relative to it) holds name. The root's file system
\* rejects a name that is not a valid path.
StatOK(files, name) == ValidPath(name) /\ name \in files

\* Variant of TryFilesLoop in which a later matching rule overrides an earlier one.
TryFilesLoop_LastMatch(tryFiles, files, uri) ==
    LET F[i \in 0..Len(tryFiles)] ==
            IF i = 0 THEN [matched |-> 0, path |-> uri, stats |-> <<>>]
            ELSE
            LET path == TriedPath(tryFiles[i], uri)
                first == TrimPrefixSlash(path)
                second == Append(first, IndexHTML)
            IN IF StatOK(files, first)
               THEN [matched |-> i, path |-> path, stats |-> Append(F[i - 1].stats, first)]
               ELSE IF HasSuffixSlash(path)
               THEN IF StatOK(files, second)
                    THEN [matched |-> i, path |-> path,
                          stats |-> F[i - 1].stats \o <<first, second>>]
                    ELSE [F[i - 1] EXCEPT !.stats = @ \o <<first, second>>]
               ELSE [F[i - 1] EXCEPT !.stats = Append(@, first)]
    IN F[Len(tryFiles)]

\* The loop of the handler over the registered rules. F[i] is the request
\* after the first i rules: matched is the index of the rule the handler
\* returned on (0: none yet), path is r.URL.Path, stats the names given to
\* fileSystem.Stat so far, in order.
TryFilesLoop(tryFiles, files, uri) ==
    LET F[i \in 0..Len(tryFiles)] ==
            IF i = 0 THEN [matched |-> 0, path |-> uri, stats |-> <<>>]
            ELSE IF F[i - 1].matched # 0 THEN F[i - 1]
            ELSE
            LET path == TriedPath(tryFiles[i], uri)
                first == TrimPrefixSlash(path)
                second == Append(first, IndexHTML)
            IN IF StatOK(files, first)
               THEN [matched |-> i, path |-> path, stats |-> Append(F[i - 1].stats, first)]
               ELSE IF HasSuffixSlash(path)
               THEN IF StatOK(files, second)
                    THEN [matched |-> i, path |-> path,
                          stats |-> F[i - 1].stats \o <<first, second>>]
                    ELSE [F[i - 1] EXCEPT !.stats = @ \o <<first, second>>]
               ELSE [F[i - 1] EXCEPT !.stats = Append(@, first)]
    IN F[Len(tryFiles)]

\* The request path names something in the content root: the root itself, a
\* file or a directory (with or without a trailing slash).
ExistsInRoot(files, uri) ==
    LET name == TrimPrefixSlash(uri)
        bare == IF HasSuffixSlash(name) THEN SubSeq(name, 1, Len(name) - 1) ELSE name
    IN bare = <<>> \/ bare \in files

\* The status the underlying content handler (checkValidFilePath, StripPrefix,
\* http.FileServerFS) answers with for a path: it redirects a path that ends
\* with "/index.html", serves what exists and answers 404 for what does not.
ContentStatus(files, path) ==
    IF HasSuffixSlashIndex(path) THEN 301
    ELSE IF ExistsInRoot(files, path) THEN 200
    ELSE 404

\* The rules, content roots and request paths looked at.
RuleChoices ==
    {<<UriVar>>, <<Slash, IndexHTML>>, <<Slash>>, <<Slash, "a", Slash, IndexHTML>>,
     <<UriVar, Slash>>, <<UriVar, Slash, IndexHTML>>, <<OtherVar>>, <<Slash, "a">>,
     <<Slash, IndexHTML, Slash, IndexHTML>>}
RootChoices ==
    {top \cup sub : top \in SUBSET {<<IndexHTML>>},
                    sub \in {{}, {<<"a">>}, {<<"a">>, <<"a", Slash, IndexHTML>>}}}
UriChoices ==
    {<<>>, <<Slash>>, <<Slash, "a">>, <<Slash, "a", Slash>>, <<Slash, IndexHTML>>,
     <<Slash, "a", Slash, IndexHTML>>, <<Slash, "missing.js">>}
QueryChoices == {<<>>, <<"q">>}

TryFilesInit ==
    /\ tfIn \in [tries : SeqsUpTo(RuleChoices, MaxRules),
                 files : RootChoices,
                 uri : UriChoices,
                 rawQuery : QueryChoices]
    /\ tfOut = [stage |-> "new", tryFiles |-> <<>>, matched |-> 0, path |-> <<>>,
                rawQuery |-> <<>>, stats |-> <<>>, nextCalls |-> 0, status |-> 0]
    /\ GroupUnused
    /\ TLSUnused
    /\ HeadersUnused
    /\ MainUnused

\* addTryFiles(tryFiles, statFS): the rules are normalised and the middleware is built.
AddTryFiles ==
    /\ tfOut.stage = "new"
    /\ tfOut' = [tfOut EXCEPT !.stage = "registered",
                              !.tryFiles = RegisterTryFiles(tfIn.tries)]
    /\ UNCHANGED <<tfIn, tlsIn, tlsOut, hdIn, hdOut, mainSt, cfgVars, shutdownTimeout, log, ngOptions, ngState,
                   ngErr, ctxCancelled, clientVars, waitGroup, procCount, listeners,
                   cycleVars, serveVars, inShutdown>>

\* Variant of TryFilesServe that answers 404 itself when no rule matched.
TryFilesServe_NotFoundOnMiss ==
    /\ tfOut.stage = "registered"
    /\ LET res == TryFilesLoop(tfOut.tryFiles, tfIn.files, tfIn.uri)
       IN tfOut' = [tfOut EXCEPT !.stage = "served",
                                 !.matched = res.matched,
                                 !.path = res.path,
                                 !.rawQuery = tfIn.rawQuery,
                                 !.stats = res.stats,
                                 !.nextCalls = IF res.matched = 0 THEN @ ELSE @ + 1,
                                 !.status = IF res.matched = 0 THEN 404
                                            ELSE ContentStatus(tfIn.files, res.path)]
    /\ UNCHANGED <<tfIn, tlsIn, tlsOut, hdIn, hdOut, mainSt, cfgVars, shutdownTimeout, log, ngOptions, ngState,
                   ngErr, ctxCancelled, clientVars, waitGroup, procCount, listeners,
                   cycleVars, serveVars, inShutdown>>

\* Variant of TryFilesServe that falls back to "/" when no rule matched.
TryFilesServe_RootOnMiss ==
    /\ tfOut.stage = "registered"
    /\ LET res == TryFilesLoop(tfOut.tryFiles, tfIn.files, tfIn.uri)
           path == IF res.matched = 0 THEN <<Slash>> ELSE res.path
       IN tfOut' = [tfOut EXCEPT !.stage = "served",
                                 !.matched = res.matched,
                                 !.path = path,
                                 !.rawQuery = tfIn.rawQuery,
                                 !.stats = res.stats,
                                 !.nextCalls = @ + 1,
                                 !.status = ContentStatus(tfIn.files, path)]
    /\ UNCHANGED <<tfIn, tlsIn, tlsOut, hdIn, hdOut, mainSt, cfgVars, shutdownTimeout, log, ngOptions, ngState,
                   ngErr, ctxCancelled, clientVars, waitGroup, procCount, listeners,
                   cycleVars, serveVars, inShutdown>>

\* Variant of TryFilesServe that hands on a fresh URL holding only the path
\* when a rule matched.
TryFilesServe_FreshURL ==
    /\ tfOut.stage = "registered"
    /\ LET res == TryFilesLoop(tfOut.tryFiles, tfIn.files, tfIn.uri)
       IN tfOut' = [tfOut EXCEPT !.stage = "served",
                                 !.matched = res.matched,
                                 !.path = res.path,
                                 !.rawQuery = IF res.matched = 0 THEN tfIn.rawQuery ELSE <<>>,
                                 !.stats = res.stats,
                                 !.nextCalls = @ + 1,
                                 !.status = ContentStatus(tfIn.files, res.path)]
    /\ UNCHANGED <<tfIn, tlsIn, tlsOut, hdIn, hdOut, mainSt, cfgVars, shutdownTimeout, log, ngOptions, ngState,
                   ngErr, ctxCancelled, clientVars, waitGroup, procCount, listeners,
                   cycleVars, serveVars, inShutdown>>

\* The handler serves the request: on the first rule that matches it sets
\* r.URL.Path and calls next; when the loop ends without a match it calls next
\* with the request as it came. The response is the one next writes.
TryFilesServe ==
    /\ tfOut.stage = "registered"
    /\ LET res == TryFilesLoop(tfOut.tryFiles, tfIn.files, tfIn.uri)
       IN tfOut' = [tfOut EXCEPT !.stage = "served",
                                 !.matched = res.matched,
                                 !.path = res.path,
                                 !.rawQuery = tfIn.rawQuery,
                                 !.stats = res.stats,
                                 !.nextCalls = @ + 1,
                                 !.status = ContentStatus(tfIn.files, res.path)]
    /\ UNCHANGED <<tfIn, tlsIn, tlsOut, hdIn, hdOut, mainSt, cfgVars, shutdownTimeout, log, ngOptions, ngState,
                   ngErr, ctxCancelled, clientVars, waitGroup, procCount, listeners,
                   cycleVars, serveVars, inShutdown>>

TryFilesNext ==
    \/ AddTryFiles
    \/ TryFilesServe

TryFilesSpec == TryFilesInit /\ [][TryFilesNext]_vars

Registered == tfOut.stage # "new"
Served == tfOut.stage = "served"

\* Rule k of the registered list resolves for the request: the path tried for
\* it is in the content root, or it ends with "/" and holds an index.html.
Resolves(k) ==
    LET name == TrimPrefixSlash(TriedPath(tfOut.tryFiles[k], tfIn.uri))
    IN \/ StatOK(tfIn.files, name)
       \/ /\ HasSuffixSlash(TriedPath(tfOut.tryFiles[k], tfIn.uri))
          /\ StatOK(tfIn.files, name \o <<IndexHTML>>)

\* The names rule k asks the file system about.
RuleQueries(k) ==
    LET name == TrimPrefixSlash(TriedPath(tfOut.tryFiles[k], tfIn.uri))
    IN IF ~StatOK(tfIn.files, name) /\ HasSuffixSlash(TriedPath(tfOut.tryFiles[k], tfIn.uri))
       THEN <<name, name \o <<IndexHTML>>>>
       ELSE <<name>>

\* The queries of rules 1..k, in order.
QueriesUpTo(k) ==
    LET F[i \in 0..k] == IF i = 0 THEN <<>> ELSE F[i - 1] \o RuleQueries(i)
    IN F[k]

\* C18: when rule k is the lowest-index rule that resolves, the request path
\* handed on is the expansion of rule k ("/" for an empty expansion), and the
\* file system has been asked about rules 1..k only, in order; when that rule
\* is $uri and the request path names an existing file, the path handed on is
\* the request path itself.
C18_FirstMatchWins ==
    Served =>
        \A k \in 1..Len(tfOut.tryFiles) :
            (Resolves(k) /\ \A j \in 1..(k - 1) : ~Resolves(j)) =>
                /\ tfOut.matched = k
                /\ tfOut.path = TriedPath(tfOut.tryFiles[k], tfIn.uri)
                /\ tfOut.stats = QueriesUpTo(k)
                /\ (tfOut.tryFiles[k] = <<UriVar>>
                      /\ StatOK(tfIn.files, TrimPrefixSlash(tfIn.uri)))
                      => tfOut.path = tfIn.uri

\* The request was served on a first rule $uri that names an existing file
\* while the last rule would have resolved as well.
C18_Witness ==
    /\ Served
    /\ Len(tfOut.tryFiles) = MaxRules
    /\ tfOut.tryFiles[1] = <<UriVar>>
    /\ tfOut.matched = 1
    /\ tfOut.path = tfIn.uri
    /\ Len(tfOut.stats) = 1
    /\ Resolves(MaxRules)
    /\ tfOut.tryFiles[MaxRules] # tfOut.tryFiles[1]

\* C19: with the rules ["$uri", "/index.html"], registered as ["$uri", "/"], a
\* request for a path that is not in a content root with a top-level
\* index.html is not matched by $uri, is matched by "/", and reaches the
\* underlying handler, once, with the path "/".
C19_FallBackToRootIndex ==
    (tfIn.tries = <<(<<UriVar>>), <<Slash, IndexHTML>>>>) =>
        /\ Registered => tfOut.tryFiles = <<(<<UriVar>>), <<Slash>>>>
        /\ (Served /\ <<IndexHTML>> \in tfIn.files /\ ~ExistsInRoot(tfIn.files, tfIn.uri)) =>
              /\ ~Resolves(1)
              /\ tfOut.matched = 2
              /\ tfOut.path = <<Slash>>
              /\ tfOut.nextCalls = 1

\* /missing.js was requested from a root with index.html and served as "/".
C19_Witness ==
    /\ Served
    /\ tfIn.tries = <<(<<UriVar>>), <<Slash, IndexHTML>>>>
    /\ tfIn.uri = <<Slash, "missing.js">>
    /\ <<IndexHTML>> \in tfIn.files
    /\ tfOut.path = <<Slash>>
    /\ tfOut.stats = <<(<<"missing.js">>), <<>>, <<IndexHTML>>>>

\* C20: the registered list has the length and order of the given list; a rule
\* that ends with "/index.html" is registered without its trailing
\* "index.html" and so ends with "/", any other rule is registered as given;
\* no registered rule ends with "/index.html".
C20_IndexSuffixTruncated ==
    Registered =>
        /\ Len(tfOut.tryFiles) = Len(tfIn.tries)
        /\ \A i \in 1..Len(tfIn.tries) :
              /\ HasSuffixSlashIndex(tfIn.tries[i]) =>
                    /\ tfOut.tryFiles[i] \o <<IndexHTML>> = tfIn.tries[i]
                    /\ HasSuffixSlash(tfOut.tryFiles[i])
              /\ ~HasSuffixSlashIndex(tfIn.tries[i]) => tfOut.tryFiles[i] = tfIn.tries[i]
              /\ ~HasSuffixSlashIndex(tfOut.tryFiles[i])

\* A rule that names index.html twice was registered next to a rule left as given.
C20_Witness ==
    /\ Registered
    /\ Len(tfIn.tries) = MaxRules
    /\ tfIn.tries[1] = <<Slash, IndexHTML, Slash, IndexHTML>>
    /\ tfOut.tryFiles[1] = <<Slash, IndexHTML, Slash>>
    /\ tfIn.tries[MaxRules] = <<UriVar>>
    /\ tfOut.tryFiles[MaxRules] = <<UriVar>>

\* C21: when no rule matched, the underlying handler is called, once, with the
\* request path exactly as it was received.
C21_NoMatchPassesThrough ==
    (Served /\ tfOut.matched = 0) =>
        /\ \A k \in 1..Len(tfOut.tryFiles) : ~Resolves(k)
        /\ tfOut.path = tfIn.uri
        /\ tfOut.nextCalls = 1

\* MaxRules rules were tried for /missing.js, none matched and the request was handed on.
C21_Witness ==
    /\ Served
    /\ tfOut.matched = 0
    /\ Len(tfOut.tryFiles) = MaxRules
    /\ Len(tfOut.stats) >= MaxRules
    /\ tfIn.uri = <<Slash, "missing.js">>
    /\ tfOut.path = <<Slash, "missing.js">>
    /\ tfOut.nextCalls = 1

C39_OneCallOnlyPathChanged ==
    /\ ~Served => tfOut.nextCalls = 0
    /\ Served =>
          /\ tfOut.nextCalls = 1
          /\ tfOut.rawQuery = tfIn.rawQuery
          /\ tfOut.path # tfIn.uri => tfOut.matched > 0

\* /missing.js?q was matched by a later rule and handed on once as /?q.
C39_Witness ==
    /\ Served
    /\ tfOut.matched > 1
    /\ tfIn.uri = <<Slash, "missing.js">>
    /\ tfOut.path = <<Slash>>
    /\ tfIn.rawQuery = <<"q">>
    /\ tfOut.rawQuery = <<"q">>
    /\ tfOut.nextCalls = 1

\* Rule k of the registered list is tried: no rule before it matched.
Tried(k) == tfOut.matched = 0 \/ tfOut.matched >= k

\* C32: a rule that is tried matches exactly when the file system holds its
\* expanded path, asked for without the leading "/", or the expanded path ends
\* with "/" and the file system holds index.html under it; an empty expansion
\* is tried as "/", so it matches exactly when the root holds index.html; and
\* a path the root does not hold that does not end with "/" does not match.
C32_MatchIffExistsOrIndex ==
    Served =>
        \A k \in 1..Len(tfOut.tryFiles) :
            Tried(k) =>
                LET expanded == Expand(tfOut.tryFiles[k], tfIn.uri)
                IN  /\ tfOut.matched = k <=> Resolves(k)
                    /\ expanded = <<>> =>
                          (tfOut.matched = k <=> <<IndexHTML>> \in tfIn.files)
                    /\ (expanded # <<>> /\ ~HasSuffixSlash(expanded)
                          /\ TrimPrefixSlash(expanded) \notin tfIn.files)
                          => tfOut.matched # k

\* A directory path matched through its index.html after an empty expansion
\* did not match.
C32_Witness ==
    /\ Served
    /\ tfOut.tryFiles = <<(<<OtherVar>>), <<UriVar, Slash>>>>
    /\ tfIn.uri = <<Slash, "a">>
    /\ tfIn.files = {<<"a">>, <<"a", Slash, IndexHTML>>}
    /\ tfOut.matched = 2
    /\ tfOut.stats = <<(<<>>), <<IndexHTML>>, <<"a", Slash>>, <<"a", Slash, IndexHTML>>>>

----------------------------------------------------------------------------
(* Additional headers: header parameters, header files and the list given  *)
(* to the header middleware.  A string is the sequence of its parts: the   *)
(* characters below and words without any of them.                         *)

MaxLines == 3

Space == " "
Tab == "\t"
Newline == "\n"
Hash == "#"
Colon == ":"

\* The white space strings.TrimSpace cuts.
WhiteSpace == {Space, Tab, Newline}

RECURSIVE TrimLeft(_)
TrimLeft(s) ==
    IF s # <<>> /\ Head(s) \in WhiteSpace THEN TrimLeft(Tail(s)) ELSE s

RECURSIVE TrimRight(_)
TrimRight(s) ==
    IF s # <<>> /\ s[Len(s)] \in WhiteSpace THEN TrimRight(SubSeq(s, 1, Len(s) - 1)) ELSE s

TrimSpace(s) == TrimRight(TrimLeft(s))

\* strings.HasPrefix(s, prefix) for a prefix of one character.
HasPrefix(s, prefix) == s # <<>> /\ Head(s) = prefix

\* strings.SplitN(p, ":", 2): p cut at its first colon, or p alone.
SplitNColon(p) ==
    IF \E k \in 1..Len(p) : p[k] = Colon
    THEN LET k == CHOOSE k \in 1..Len(p) : p[k] = Colon /\ \A j \in 1..(k - 1) : p[j] # Colon
         IN  <<SubSeq(p, 1, k - 1), SubSeq(p, k + 1, Len(p))>>
    ELSE <<p>>

\* Variant of headerParamToHeaders that cuts a parameter at its last colon.
headerParamToHeaders_LastColon(param) ==
    [k \in 1..Len(param) |->
        LET p == param[k]
            s == IF \E c \in 1..Len(p) : p[c] = Colon
                 THEN LET c == CHOOSE c \in 1..Len(p) :
                                   p[c] = Colon /\ \A j \in (c + 1)..Len(p) : p[j] # Colon
                      IN  <<SubSeq(p, 1, c - 1), SubSeq(p, c + 1, Len(p))>>
                 ELSE <<p>>
        IN  <<s[1], TrimSpace(IF Len(s) # 2 THEN <<>> ELSE s[2])>>]

\* headerParamToHeaders: one (name, value) pair per parameter.
headerParamToHeaders(param) ==
    [k \in 1..Len(param) |->
        LET s == SplitNColon(param[k])
        IN  <<s[1], TrimSpace(IF Len(s) # 2 THEN <<>> ELSE s[2])>>]

\* Variant of ScanLine that joins a continuation with a space.
ScanLine_JoinSpace(lines, line) ==
    IF Len(line) = 0 THEN lines
    ELSE IF HasPrefix(line, Hash) THEN lines
    ELSE IF HasPrefix(line, Space) /\ Len(lines) > 0
    THEN [lines EXCEPT ![Len(lines)] = @ \o <<Space>> \o TrimSpace(line)]
    ELSE Append(lines, TrimSpace(line))

\* The body of the scanner loop of parseHeaderLines for one line.
ScanLine(lines, line) ==
    IF Len(line) = 0 THEN lines
    ELSE IF HasPrefix(line, Hash) THEN lines
    ELSE IF HasPrefix(line, Space) /\ Len(lines) > 0
    THEN [lines EXCEPT ![Len(lines)] = @ \o <<Newline>> \o TrimSpace(line)]
    ELSE Append(lines, TrimSpace(line))

RECURSIVE ScanLines(_, _)
ScanLines(lines, rest) ==
    IF rest = <<>> THEN lines ELSE ScanLines(ScanLine(lines, Head(rest)), Tail(rest))

ErrScanFile == "error scanning file"
ErrOpenFile == "could not open file"
ErrProcessHeaderFile == "could not process header file"

\* parseHeaderLines(reader): a reader is the lines it holds and whether the
\* scanner gives up on it (a line longer than its buffer).
parseHeaderLines(reader) ==
    IF reader.scanErr
    THEN [lines |-> <<>>, err |-> <<ErrScanFile>>]
    ELSE [lines |-> ScanLines(<<>>, reader.lines), err |-> <<>>]

\* The header files of the file system: the content of "one.conf" is an
\* input, "two.conf" holds one header, "long.conf" a line the scanner gives
\* up on, and "missing.conf" does not exist.
HeaderFileNames == {"one.conf", "two.conf", "long.conf"}

FileContent(content, filePath) ==
    IF filePath = "one.conf" THEN [lines |-> content, scanErr |-> FALSE]
    ELSE IF filePath = "two.conf" THEN [lines |-> <<<<"Z", Colon, "c">>>>, scanErr |-> FALSE]
    ELSE [lines |-> <<>>, scanErr |-> TRUE]

\* readHeaderFile(filePath) in a file system where "one.conf" holds content.
readHeaderFile(content, filePath) ==
    IF filePath \notin HeaderFileNames
    THEN [lines |-> <<>>, err |-> <<ErrOpenFile>>]
    ELSE parseHeaderLines(FileContent(content, filePath))

\* The loop of headerFilesToHeaders from file k on, allLines read so far.
RECURSIVE ReadHeaderFiles(_, _, _, _)
ReadHeaderFiles(content, files, k, allLines) ==
    IF k > Len(files) THEN [lines |-> allLines, err |-> <<>>]
    ELSE LET r == readHeaderFile(content, files[k])
         IN  IF r.err # <<>>
             THEN [lines |-> <<>>, err |-> <<ErrProcessHeaderFile, files[k]>> \o r.err]
             ELSE ReadHeaderFiles(content, files, k + 1, allLines \o r.lines)

\* headerFilesToHeaders(files): the pairs and the error (<<>> is nil).
headerFilesToHeaders(content, files) ==
    LET r == ReadHeaderFiles(content, files, 1, <<>>)
    IN  IF r.err # <<>>
        THEN [headers |-> <<>>, err |-> r.err]
        ELSE [headers |-> headerParamToHeaders(r.lines), err |-> <<>>]

ServerName == "SonicWeb"

\* Variant of HandlerHeaders with the headers of the files first.
HandlerHeaders_FilesFirst(cli, fileHeaders) ==
    fileHeaders \o headerParamToHeaders(cli)

\* The headers main gives to generateFileHandler.
HandlerHeaders(cli, fileHeaders) ==
    headerParamToHeaders(cli) \o fileHeaders

\* addHeaders(headers): the list given to add_header.WithHeaders, for a build
\* without version tag.
addHeaders(headers) ==
    <<<< <<"Server">>, <<ServerName>> >>>> \o headers

\* The lines of a header file and the header parameters that are tried.
LineChoices ==
    {<<>>,
     <<Hash, "c">>,
     <<"X", Colon, Space, "a">>,
     <<"Y">>,
     <<Space, "b">>,
     <<Tab, "b">>}

HeaderArgChoices ==
    {<<>>,
     << <<"X", Colon, Space, "a">> >>,
     << <<"X", Colon, Space, "a">>, <<"Server", Colon, "s">> >>,
     << <<"Server", Colon, "s">>, <<"X", Colon, Space, "a">> >>,
     << <<"Y">>, <<"X", Colon, "b">> >>,
     << <<"X", Colon, Space, "a", Colon, "b", Tab>> >>}

HeaderFileChoices ==
    {<<>>,
     <<"one.conf">>,
     <<"one.conf", "two.conf">>,
     <<"two.conf", "one.conf">>,
     <<"one.conf", "one.conf">>,
     <<"one.conf", "missing.conf">>,
     <<"long.conf", "one.conf">>}

HeaderInit ==
    /\ hdIn \in [cli : HeaderArgChoices,
                 files : HeaderFileChoices,
                 content : SeqsUpTo(LineChoices, MaxLines)]
    /\ hdOut = [done |-> FALSE, err |-> <<>>, fileHeaders |-> <<>>, headers |-> <<>>]
    /\ GroupUnused
    /\ TLSUnused
    /\ TryFilesUnused
    /\ MainUnused

\* main from headerFilesToHeaders to the middleware stack of
\* generateFileHandler: an error of the header files ends main before a
\* handler is built.
ComposeHeaders ==
    /\ ~hdOut.done
    /\ LET fromFiles == headerFilesToHeaders(hdIn.content, hdIn.files)
       IN  hdOut' = [done |-> TRUE,
                     err |-> fromFiles.err,
                     fileHeaders |-> fromFiles.headers,
                     headers |-> IF fromFiles.err # <<>> THEN <<>>
                                 ELSE addHeaders(HandlerHeaders(hdIn.cli, fromFiles.headers))]
    /\ UNCHANGED <<hdIn, tlsIn, tlsOut, tfIn, tfOut, mainSt, cfgVars, shutdownTimeout, log, ngOptions,
                   ngState, ngErr, ctxCancelled, clientVars, waitGroup, procCount, listeners,
                   cycleVars, serveVars, inShutdown>>

HeaderNext == ComposeHeaders

HeaderSpec == HeaderInit /\ [][HeaderNext]_vars

\* The middleware list was built from the headers.
Composed == hdOut.done /\ hdOut.err = <<>>

\* The headers one file gives on its own, and the position in the composed
\* list just before the headers of file k.
HeadersOfFile(k) ==
    headerParamToHeaders(readHeaderFile(hdIn.content, hdIn.files[k]).lines)

RECURSIVE HeadersBeforeFile(_)
HeadersBeforeFile(k) ==
    IF k = 1 THEN 1 + Len(hdIn.cli)
    ELSE HeadersBeforeFile(k - 1) + Len(HeadersOfFile(k - 1))

\* C24: the composed list starts with the Server identity header, goes on
\* with one header per header parameter in command-line order, and ends with
\* the headers of the files, file after file and line after line.
C24_ServerThenCLIThenFiles ==
    Composed =>
        /\ hdOut.headers[1] = << <<"Server">>, <<ServerName>> >>
        /\ \A k \in 1..Len(hdIn.cli) :
              hdOut.headers[1 + k] = headerParamToHeaders(<<hdIn.cli[k]>>)[1]
        /\ \A k \in 1..Len(hdIn.files) :
              \A h \in 1..Len(HeadersOfFile(k)) :
                  hdOut.headers[HeadersBeforeFile(k) + h] = HeadersOfFile(k)[h]
        /\ Len(hdOut.headers) = HeadersBeforeFile(Len(hdIn.files) + 1)

C24_Witness ==
    /\ Composed
    /\ hdIn.cli = << <<"Server", Colon, "s">>, <<"X", Colon, Space, "a">> >>
    /\ hdIn.files = <<"two.conf", "one.conf">>
    /\ hdIn.content = << <<"Y">>, <<"X", Colon, Space, "a">> >>
    /\ Len(hdOut.headers) = 6
    /\ hdOut.headers[2] = << <<"Server">>, <<"s">> >>
    /\ hdOut.headers[4] = << <<"Z">>, <<"c">> >>
    /\ hdOut.headers[6] = << <<"X">>, <<"a">> >>

\* One header file, "one.conf", was read.
OneFileRead == Composed /\ hdIn.files = <<"one.conf">>

\* The lines of a file that are neither empty nor comments; among them the
\* lines that start a header when the characters of Lead mark a continuation
\* (a marked line with no line to continue starts one too), and the others.
LiveLine(c, p) == Len(c[p]) # 0 /\ Head(c[p]) # Hash

StartsHeader(c, p, Lead) ==
    /\ LiveLine(c, p)
    /\ Head(c[p]) \notin Lead \/ \A q \in 1..(p - 1) : ~LiveLine(c, q)

Continues(c, p, Lead) == LiveLine(c, p) /\ ~StartsHeader(c, p, Lead)

\* The number of headers started up to line p.
HeaderRank(c, p, Lead) == Cardinality({q \in 1..p : StartsHeader(c, q, Lead)})

\* What the continuation lines from line q to the next header add.
RECURSIVE Continuations(_, _, _)
Continuations(c, q, Lead) ==
    IF q > Len(c) \/ StartsHeader(c, q, Lead) THEN <<>>
    ELSE (IF Continues(c, q, Lead) THEN <<Newline>> \o TrimSpace(c[q]) ELSE <<>>)
         \o Continuations(c, q + 1, Lead)

\* C25 as stated: empty lines and comments give no header, and a line led by
\* a space or by a tab is appended, after a newline, to the value of the
\* header before it, whose name stays as written.
C25_WhitespaceContinues ==
    OneFileRead =>
        LET c == hdIn.content
            Lead == {Space, Tab}
        IN  /\ Len(hdOut.fileHeaders) = HeaderRank(c, Len(c), Lead)
            /\ \A p \in 1..Len(c) :
                  StartsHeader(c, p, Lead) =>
                      LET written == headerParamToHeaders(<<TrimSpace(c[p])>>)[1]
                          header == hdOut.fileHeaders[HeaderRank(c, p, Lead)]
                      IN  /\ header[1] = written[1]
                          /\ header[2] = written[2] \o Continuations(c, p + 1, Lead)

\* C25 amended: empty lines and comments give no header, and a line led by a
\* space (a tab does not count) that follows a header line of its file is
\* trimmed and appended, after a newline, to that header line, which is cut
\* into name and value afterwards: the text reaches the value when the header
\* line holds a colon and the name when it holds none.
C25_SpaceContinuesLine ==
    OneFileRead =>
        LET c == hdIn.content
            Lead == {Space}
        IN  /\ Len(hdOut.fileHeaders) = HeaderRank(c, Len(c), Lead)
            /\ \A p \in 1..Len(c) :
                  StartsHeader(c, p, Lead) =>
                      hdOut.fileHeaders[HeaderRank(c, p, Lead)] =
                          headerParamToHeaders(
                              <<TrimSpace(c[p]) \o Continuations(c, p + 1, Lead)>>)[1]

C25_Witness ==
    /\ OneFileRead
    /\ hdIn.content = << <<"X", Colon, Space, "a">>, <<Hash, "c">>, <<Space, "b">> >>
    /\ hdOut.fileHeaders = << << <<"X">>, <<"a", Newline, "b">> >> >>

----------------------------------------------------------------------------
(* main: the setup steps in the order of the code, the Group it builds,    *)
(* starts and waits for, and Exit with the deferred calls.                  *)

ServerShutdownTimeout == 5

\* The steps of main that can end it before the Group is built, in the order
\* of the code; instrumentation.Server, the last one, returns no error.
SetupSteps ==
    <<"version", "config", "logging", "root", "telemetry", "tls", "headers", "handler",
      "monitoring">>

\* The steps a configuration can make fail.
FailChoices == {"none", "version", "config", "logging", "root", "telemetry", "tls", "headers",
                "handler"}

\* The argument of the Exit call of a setup step.
SetupExitCode(step) == IF step = "version" THEN 0 ELSE 1

\* Exit(code): the panic that starts the deferred calls of main.
Exit(st, code, reason) ==
    [st EXCEPT !.pc = "unwinding", !.code = code, !.reason = reason]

\* A defer statement of main.
Defer(st, call) == [st EXCEPT !.defers = Append(@, call)]

\* The defer statements that follow a setup step that passed.
DeferAfter(st, step) ==
    IF step = "telemetry" /\ st.telemetry THEN Defer(st, "cleanup")
    ELSE IF step = "tls" THEN Defer(st, "server.Close")
    ELSE st

MainInit ==
    /\ mainSt \in {st \in [pc : {"enter"}, step : {1}, fail : FailChoices,
                           telemetry : BOOLEAN, pprof : BOOLEAN, defers : {<<>>},
                           ran : {<<>>}, code : {-1}, reason : {"none"},
                           exitCalls : {<<>>}] :
                       st.fail = "telemetry" => st.telemetry}
    /\ GroupUnused
    /\ TLSUnused
    /\ TryFilesUnused
    /\ HeadersUnused

\* The frame of a step of main that touches nothing of the Group it runs.
MainOnly ==
    UNCHANGED <<cfgVars, shutdownTimeout, log, ngOptions, ngState, ngErr, tlsIn, tlsOut, tfIn,
                tfOut, hdIn, hdOut, ctxCancelled, clientVars, waitGroup, procCount, listeners,
                cycleVars, serveVars, inShutdown>>

\* Variant of MainEnter with the two defer statements in the other order.
MainEnter_RecoverLast ==
    /\ mainSt.pc = "enter"
    /\ mainSt' = [Defer(Defer(mainSt, "signalShutdownFunc"), "recover") EXCEPT !.pc = "setup"]
    /\ MainOnly

\* main up to setupFlags: the recovering function is deferred first, then
\* signalShutdownFunc.
MainEnter ==
    /\ mainSt.pc = "enter"
    /\ mainSt' = [Defer(Defer(mainSt, "recover"), "signalShutdownFunc") EXCEPT !.pc = "setup"]
    /\ MainOnly

\* One setup step: Exit when it fails, else its defer statement and the next.
MainSetup ==
    /\ mainSt.pc = "setup"
    /\ LET step == SetupSteps[mainSt.step]
       IN  mainSt' =
               IF mainSt.fail = step
               THEN Exit(mainSt, SetupExitCode(step), step)
               ELSE IF mainSt.step = Len(SetupSteps)
               THEN [DeferAfter(mainSt, step) EXCEPT !.pc = "group"]
               ELSE [DeferAfter(mainSt, step) EXCEPT !.step = @ + 1]
    /\ MainOnly

\* serviceOptions: the content server, and the monitoring server when
\* instrumentation.Server returned one.
ServiceOptions(st) ==
    <<WithLoggerOpt("custom"),
      WithShutdownTimeoutOpt(ServerShutdownTimeout),
      WithServerOpt(1, ServerName)>>
    \o (IF st.telemetry \/ st.pprof THEN <<WithServerOpt(2, "instrumentation")>> ELSE <<>>)

\* service.NewGroup(serviceOptions...) and the two checks of its result.
MainNewGroup ==
    /\ mainSt.pc = "group"
    /\ ngOptions' = ServiceOptions(mainSt)
    /\ LET res == NewGroup(ngOptions')
       IN  /\ ngErr' = res.err
           /\ IF res.err # <<>> \/ res.group = NilGroup
              THEN /\ ngState' = "failed"
                   /\ mainSt' = Exit(mainSt, 1, "group")
                   /\ UNCHANGED <<cfgVars, shutdownTimeout, log>>
              ELSE /\ ngState' = "group"
                   /\ mainSt' = [mainSt EXCEPT !.pc = "start_all"]
                   /\ servers' = res.group[1].servers
                   /\ serverNames' = res.group[1].serverNames
                   /\ shutdownTimeout' = res.group[1].shutdownTimeout
                   /\ log' = res.group[1].log
    /\ UNCHANGED <<tlsIn, tlsOut, tfIn, tfOut, hdIn, hdOut, ctxCancelled, clientVars, waitGroup,
                   procCount, listeners, cycleVars, serveVars, inShutdown>>

\* Variant of MainStartAll that does not wait for the setup to be through.
MainStartAll_Eager ==
    /\ mainSt.pc \in {"setup", "start_all"}
    /\ cpc = "init"
    /\ StartAllEnter

\* services.StartAll(signalShutdown) is called.
MainStartAll ==
    /\ mainSt.pc = "start_all"
    /\ cpc = "init"
    /\ StartAllEnter

\* Variant of MainStartAllReturned that leaves out WaitAllServersShutdown.
MainStartAllReturned_NoWait ==
    /\ mainSt.pc = "start_all"
    /\ cpc = "sa_ret"
    /\ mainSt' = IF saErr # ErrNone THEN Exit(mainSt, 1, "start_all")
                 ELSE Exit(mainSt, 0, "done")
    /\ MainOnly

\* StartAll has returned: Exit(1) on an error.
MainStartAllReturned ==
    /\ mainSt.pc = "start_all"
    /\ cpc = "sa_ret"
    /\ mainSt' = IF saErr # ErrNone THEN Exit(mainSt, 1, "start_all")
                 ELSE [mainSt EXCEPT !.pc = "wait"]
    /\ MainOnly

\* services.WaitAllServersShutdown() is called.
MainWait ==
    /\ mainSt.pc = "wait"
    /\ cpc = "sa_ret"
    /\ WaitCall

\* WaitAllServersShutdown has returned: Exit(0).
MainWaitReturned ==
    /\ mainSt.pc = "wait"
    /\ cpc = "wret"
    /\ mainSt' = Exit(mainSt, 0, "done")
    /\ MainOnly

\* The panic of Exit runs the deferred call registered last: the recovering
\* function calls exitFunc, which does not return; signalShutdownFunc
\* cancels the signal context; server.Close closes the content server.
MainRunDeferred ==
    /\ mainSt.pc = "unwinding"
    /\ mainSt.defers # <<>>
    /\ LET call == mainSt.defers[Len(mainSt.defers)]
           rest == SubSeq(mainSt.defers, 1, Len(mainSt.defers) - 1)
       IN  /\ mainSt' = IF call = "recover"
                        THEN [mainSt EXCEPT !.defers = rest, !.pc = "exited",
                                            !.exitCalls = Append(@, mainSt.code)]
                        ELSE [mainSt EXCEPT !.defers = rest, !.ran = Append(@, call)]
           /\ ctxCancelled' = (ctxCancelled \/ call = "signalShutdownFunc")
           /\ IF call = "server.Close"
              THEN /\ inShutdown' = [inShutdown EXCEPT ![1] = TRUE]
                   /\ listeners' = CloseTracked(1)
              ELSE UNCHANGED <<inShutdown, listeners>>
    /\ UNCHANGED <<cfgVars, shutdownTimeout, log, ngOptions, ngState, ngErr, tlsIn, tlsOut, tfIn,
                   tfOut, hdIn, hdOut, clientVars, waitGroup, procCount, cycleVars, serveVars>>

\* The process is alive: exitFunc has not been called.
MainAlive == mainSt.pc # "exited"

\* A signal, and the steps of StartAll, of Wait and of the goroutines of the
\* Group, for as long as the process is alive.
MainSignal == MainAlive /\ Cancel

MainGroupStep ==
    /\ MainAlive
    /\ \/ BindListener
       \/ StartAllAddWait
       \/ StartAllAddCount
       \/ StartAllGo
       \/ WaitReturn
       \/ \E i \in 1..NumServers : Cycle(i)
       \/ \E i \in 1..NumServers : ServeBegin(i)
       \/ \E i \in 1..NumServers : ServeReturn(i)

MainNext ==
    \/ MainEnter
    \/ MainSetup
    \/ MainNewGroup
    \/ MainStartAll
    \/ MainStartAllReturned
    \/ MainWait
    \/ MainWaitReturned
    \/ MainRunDeferred
    \/ MainSignal
    \/ MainGroupStep

MainSpec == MainInit /\ [][MainNext]_vars

\* Exit has been called; exitFunc has been called.
ExitIssued == mainSt.pc \in {"unwinding", "exited"}
ExitFuncCalled == mainSt.exitCalls # <<>>

\* C26: an Exit issued by a setup step or after a failed construction of the
\* Group carries status 0 for -version and 1 otherwise, and from then on
\* StartAll has not been invoked and no listener is bound.
C26_EarlyExitBeforeBind ==
    (ExitIssued /\ mainSt.reason \notin {"start_all", "done"}) =>
        /\ mainSt.code = (IF mainSt.reason = "version" THEN 0 ELSE 1)
        /\ cpc = "init"
        /\ saErr = ErrNotCalled
        /\ \A i \in Idx : listeners[i] = "none" /\ hpc[i] = "idle"
        /\ ExitFuncCalled => mainSt.exitCalls = <<mainSt.code>>

C26_Witness ==
    /\ ExitFuncCalled
    /\ mainSt.reason = "headers"
    /\ mainSt.exitCalls = <<1>>
    /\ mainSt.telemetry
    /\ cpc = "init"

\* C27: after a successful StartAll, Exit is issued only with status 0 and
\* only once WaitAllServersShutdown has returned, when every
\* handleServerCycle goroutine of the Group has exited.
C27_ExitAfterWait ==
    (ExitIssued /\ saErr = ErrNone) =>
        /\ mainSt.reason = "done"
        /\ mainSt.code = 0
        /\ cpc = "wret"
        /\ waitGroup = 0
        /\ \A i \in 1..NumServers : hpc[i] = "exited"

C27_Witness ==
    /\ ExitFuncCalled
    /\ mainSt.exitCalls = <<0>>
    /\ saErr = ErrNone
    /\ NumServers = 2
    /\ \A i \in 1..NumServers : hpc[i] = "exited"

\* The deferred calls main has registered besides the recovering function,
\* last first: server.Close once the TLS step is through, cleanup once the
\* telemetry step is through with telemetry enabled, signalShutdownFunc.
StepThrough(step) ==
    \/ mainSt.reason \in {"group", "start_all", "done"}
    \/ \E j, k \in 1..Len(SetupSteps) :
          SetupSteps[j] = step /\ SetupSteps[k] = mainSt.reason /\ j < k

CleanupDeferred ==
    (IF StepThrough("tls") THEN <<"server.Close">> ELSE <<>>)
    \o (IF StepThrough("telemetry") /\ mainSt.telemetry THEN <<"cleanup">> ELSE <<>>)
    \o <<"signalShutdownFunc">>

\* C28: when exitFunc is called, every cleanup deferred before the Exit has
\* run, last deferred first, and exitFunc has been called once, with the
\* code given to Exit.
C28_CleanupThenExitOnce ==
    ExitFuncCalled =>
        /\ mainSt.ran = CleanupDeferred
        /\ mainSt.defers = <<>>
        /\ mainSt.exitCalls = <<mainSt.code>>
        /\ ctxCancelled

C28_Witness ==
    /\ ExitFuncCalled
    /\ mainSt.reason = "done"
    /\ mainSt.ran = <<"server.Close", "cleanup", "signalShutdownFunc">>
    /\ mainSt.exitCalls = <<0>>

====
